---- MODULE Spec2Model ----
(***************************************************************************)
(* DPS8000 pressure logger: the RS-485 ASCII device client (dps8000.py),   *)
(* the device simulator that answers it (rs485_pressure_sim.py), the       *)
(* adapter (dps8000_adapter.py) and the logger loop (dps_logger.py).       *)
(*                                                                         *)
(* A line on the wire is a record, not a string: a command line is         *)
(* [pfx, c, u, n] ("<pfx>:" c "," u-or-n), a reply line is [k, u, n, pfx]. *)
(* Two history fields ride on every line: cur (the line answers, or is,    *)
(* the command of the client's current attempt) and pre (the line was in   *)
(* the client's input buffer when an attempt began).                       *)
(***************************************************************************)
EXTENDS Integers, Sequences, FiniteSets, TLC

\* ---------------------------------------------------------------- bounds
\* cfg.retries ranges over 0..MaxRetries
MaxRetries == 1
\* command lines the peer may hold unread or unanswered
MaxPending == 2
\* lines the client's serial input buffer may hold
MaxInbuf == 1
\* public operations one run makes on the client driven directly
MaxCalls == 3
\* perf_counter() stops at MaxTime ticks
MaxTime == 4
\* --interval, in ticks
Interval == 2

\* A mutant of UNITS_ALLOWED: a name that is no unit is allowed.
UNITS_ALLOWED_Open == {"bar", "Pa", "atm"}

\* The units of the model: two of UNITS_ALLOWED, and one name outside it.
UNITS_ALLOWED == {"bar", "Pa"}
UnitArgs == UNITS_ALLOWED \cup {"atm"}
\* set_address's argument in the model: one network address (0 is set_direct_mode).
AddrArgs == {5}

VARIABLES
    cfg,        \* DPS8000Config: unit, direct_mode, address (<<>> is None), retries, autosend_off
    ser_open,   \* DPS8000._ser is an open port
    pc,         \* where the client is: idle, tx, readline, read_until
    op,         \* the public operation in progress (or the last one)
    arg,        \* its argument: [u, n]
    cmd,        \* the command _safe_cmd is sending
    todo,       \* open(): the init commands still to send
    attempt,    \* _safe_cmd's loop variable
    writes,     \* ser.write calls made by the current _safe_cmd
    last_exc,   \* _safe_cmd's last_exc
    result,     \* outcome of the last finished operation
    cfg0,       \* cfg when the operation started
    accepted,   \* the text the last _txrx_once returned (<<>>: none yet in this operation)
    flushed,    \* lines the current attempt's reset_input_buffer threw away
    ncalls,     \* public operations begun so far
    inbuf,      \* the client's serial input buffer: reply lines
    toSim,      \* command lines written and not yet handled by the peer
    dev,        \* the simulator's DeviceCfg: unit, addr, autosend,
                \* echo_address_in_reply, and its signal's settings sig
    hc,         \* history: the last line handle_command was given on its own,
                \* the simulator's state before it, and the lines sent
    peer,       \* what is on the port: "sim" the simulator, "silent" nothing that
                \* answers, "blank" a device that answers every line with a bare CR
    lpc,        \* where run_logger is ("off": the client is driven directly)
    with_raw,   \* --with-raw
    count,      \* run_logger's count
    tp0,        \* run_logger's tp0, the reference of the schedule
    now,        \* perf_counter(), in ticks
    disable_halt,   \* the module's disable_halt
    row,        \* the last row data_log.write was given
    cyc,        \* the last cycle that left the device read: k its count at the
                \* start, done whether its body has ended, fault the exception
                \* its device read raised ("": none), row whether it wrote a NaN
                \* row, err whether it wrote an error-log line, sink whether
                \* data_log.write, the print of the row or err_log.write
                \* raised, kept whether the row is in the file all the same
                \* (while its error is being logged)
    ended,      \* how run_logger ended: how ("": it runs), at (where it was), code
                \* (the exit code), inflight (a reply was being awaited), partial
                \* (a row was being written), logged (the "fatal:" line was
                \* written), total (the total of rows was printed)
    ignored,    \* history: a signal arrived while the last cycle was writing its
                \* row or its error line, and was ignored
    stream,     \* history: the bytes sent to the simulator's port
    rx,         \* those of them that DPSSim.serve has not read yet
    buf,        \* serve's buf
    handled,    \* history: the lines serve gave to handle_command
    lock,       \* DPSSim._lock: the thread inside "with self._lock" ("": none)
    stop,       \* DPSSim._stop, the Event
    athr,       \* each autosend Thread: "none" not made, "test" at its while
                \* condition, "convert" and "label" inside _measurement_strings,
                \* "send" waiting for the lock, "write" inside ser.write,
                \* "sleep" in time.sleep, "exit" out of its loop and still
                \* alive, "dead"
    autosend_thr, \* DPSSim._autosend_thr: the Thread made last ("": None)
    mline,      \* the measurement line each thread is building: the unit its
                \* value was converted with and the unit of its label
    quiet,      \* the echo of an A,0 is on the wire and no A,1 was handled since
    dpc,        \* the command thread: "idle" in ser.read, "send" waiting for the
                \* lock with its reply, "write" inside ser.write, "start" after
                \* the reply to A,1
    dcmd,       \* the command it is handling
    wpos,       \* bytes of its line each thread has given to the port so far
    wire,       \* the last bytes written to the port: [by, i] is byte i of a
                \* line of thread by
    today,      \* the local date, a day number
    wdate,      \* CSVRotatingWriter._date (0: None)
    fh,         \* CSVRotatingWriter._fh: the day whose file it has open (0: None)
    files,      \* the lines of the file of each day (<<>>: no such file)
    nrows,      \* rows written so far
    handles,    \* the open file handles of the process: how many on each day's file
    peak,       \* history: the most handles open at once during the last operation
    since_flush,    \* CSVRotatingWriter._rows_written_since_flush
    unflushed,  \* rows given to the open handle and not flushed since
    wlast,      \* history: the writer's last operation, and whether it opened a file
    log_list,   \* ErrorLog._log_list
    elogs,      \* the ErrorLog objects alive: for each its _full_path ("": it has
                \* none) and its _is_header
    efiles,     \* the lines of the file at each path (<<>>: empty or no such file)
    elast,      \* history: the last ErrorLog operation, whether it raised, and
                \* the files before it
    spc,        \* where datalogger-stem's run_logger is: "sync", "top" of its loop,
                \* "cycle", "sleep", "stopped", "fatal"
    halt_requested,     \* datalogger-stem's halt_requested
    stem_disable_halt,  \* datalogger-stem's disable_halt
    rows,       \* run_logger's rows
    halt_at,    \* history: where the loop was, and its rows, at the first request
    stem_end    \* history: where the loop was left, what was reported, the
                \* return code

clientVars ==
    <<cfg, ser_open, pc, op, arg, cmd, todo, attempt, writes, last_exc, result, cfg0, ncalls,
      accepted, flushed>>
wireVars == <<inbuf, toSim>>
simVars == <<dev, peer, hc>>
histVars == <<ended, ignored>>
serveVars == <<stream, rx, buf, handled>>
\* what neither the client nor run_logger changes
threadVars == <<lock, stop, athr, autosend_thr, mline, quiet, dpc, dcmd, wpos, wire>>
csvVars == <<today, wdate, fh, files, nrows, handles, peak, since_flush, unflushed, wlast>>
errVars == <<log_list, elogs, efiles, elast>>
stemVars == <<spc, halt_requested, stem_disable_halt, rows, halt_at, stem_end>>
sideVars == <<with_raw, serveVars, threadVars, csvVars, errVars, stemVars>>
loggerVars == <<lpc, sideVars, count, tp0, now, disable_halt, row, cyc, histVars>>
vars == <<clientVars, wireVars, simVars, loggerVars>>

\* ---------------------------------------------------------------- lines
NoArg == [u |-> "", n |-> 0]
Command(c, u, n) == [c |-> c, u |-> u, n |-> n]
NoCommand == Command("", "", 0)
Reply(k, u, n, pfx, cur) == [k |-> k, u |-> u, n |-> n, pfx |-> pfx, cur |-> cur, pre |-> FALSE]
NoResult == [status |-> "none", cause |-> "", writes |-> 0, unit |-> ""]

\* Python truthiness of Optional[int]
Truthy(a) == a # <<>> /\ a[1] # 0

\* str.lower() on the unit names of the model
Lower(u) == CASE u = "Pa" -> "pa" [] u = "kPa" -> "kpa" [] OTHER -> u

\* DPS8000._prefix_addr: the "<addr>:" prefix of a command line, <<>> for none
prefix_addr(c) == IF Truthy(c.address) /\ ~c.direct_mode THEN c.address ELSE <<>>

\* ---------------------------------------------------------------- simulator
\* DPSSim._measurement_strings / the *T and *Z replies: the address echo
EchoPfx(d) == IF d.addr # 0 /\ d.echo_address_in_reply THEN <<d.addr>> ELSE <<>>

\* A mutant of addressed_elsewhere: an addressed device also drops the lines
\* that carry no prefix.
addressed_elsewhere_Strict(d, m) == d.addr # 0 /\ (m.pfx = <<>> \/ m.pfx[1] # d.addr)

\* DPSSim.handle_command's address filter: with a non-zero address, a line
\* with the "<n>:" prefix of another address is dropped
addressed_elsewhere(d, m) == d.addr # 0 /\ m.pfx # <<>> /\ m.pfx[1] # d.addr

\* one bar, the unit of the signal's pressures being 0.001 bar
Bar == 1000

\* exp(-1/tau) in thousandths, for the time constants of the model (in ticks
\* of the simulator's clock)
ExpStep(tau) == CASE tau = 1 -> 368 [] tau = 2 -> 607 [] tau = 30 -> 967 [] OTHER -> 0

\* math.exp(-dt_ / max(1e-6, c.tau_s)) in thousandths: exp(-1/tau) to the
\* power dt_, which is 1 exactly for dt_ = 0
RECURSIVE ExpNeg(_, _)
ExpNeg(dt, tau) == IF dt = 0 THEN Bar ELSE (ExpNeg(dt - 1, tau) * ExpStep(tau)) \div Bar

\* S,MODE's argument in the model: 1 and 2 stand for the names settle and
\* const, 0 for a word that is no mode
ModeName(n) == IF n = 1 THEN "settle" ELSE "const"

\* Signal.value(t), for the modes settle and const
value(sig, t) ==
    IF sig.mode = "settle"
    THEN LET dt == IF t - sig.t0 > 0 THEN t - sig.t0 ELSE 0
         IN  sig.p2 + ((sig.p1 - sig.p2) * ExpNeg(dt, sig.tau_s)) \div Bar
    ELSE sig.offset

\* A mutant of step_to: the target is overwritten before the signal is
\* evaluated.
step_to_TargetFirst(sig, t, p2_new) ==
    [sig EXCEPT !.p1 = value([sig EXCEPT !.p2 = p2_new], t), !.p2 = p2_new, !.t0 = t]

\* Signal.step_to(p2_new) at perf_counter() = t
step_to(sig, t, p2_new) == [sig EXCEPT !.p1 = value(sig, t), !.p2 = p2_new, !.t0 = t]

\* A mutant of step_command: S,MODE re-anchors t0 before it looks at the name.
step_command_AnchorsFirst(d, m) ==
    LET one(r) == [dev |-> d, out |-> <<r>>]
        ok(k, v, sig) == [dev |-> [d EXCEPT !.sig = sig],
                          out |-> <<Reply("S_OK", k, v, <<>>, m.cur)>>]
    IN  CASE m.u = "P2" -> IF m.n = 0 THEN one(Reply("S_ERR", "", 0, <<>>, m.cur))
                           ELSE ok("P2", m.n, step_to(d.sig, d.clock, m.n * Bar))
          [] m.u = "TAU" -> IF m.n = 0 THEN one(Reply("S_ERR", "", 0, <<>>, m.cur))
                            ELSE ok("TAU", m.n, [d.sig EXCEPT !.tau_s = m.n])
          [] m.u = "MODE" -> IF m.n = 0
                             THEN [dev |-> [d EXCEPT !.sig.t0 = d.clock],
                                   out |-> <<Reply("S_ERR", "BAD_MODE", 0, <<>>, m.cur)>>]
                             ELSE ok("MODE", m.n, [d.sig EXCEPT !.mode = ModeName(m.n),
                                                               !.t0 = d.clock])
          [] m.u = "" -> one(Reply("S_ERR", "", 0, <<>>, m.cur))
          [] OTHER -> one(Reply("S_ERR", "BAD_KEY", 0, <<>>, m.cur))

\* the "S," family: S,P2,<v> S,TAU,<v> S,MODE,<name>; u is the key, n the
\* value (0: text that is no number, or no mode name; a pressure in bar)
step_command(d, m) ==
    LET one(r) == [dev |-> d, out |-> <<r>>]
        ok(k, v, sig) == [dev |-> [d EXCEPT !.sig = sig],
                          out |-> <<Reply("S_OK", k, v, <<>>, m.cur)>>]
    IN  CASE m.u = "P2" -> IF m.n = 0 THEN one(Reply("S_ERR", "", 0, <<>>, m.cur))
                           ELSE ok("P2", m.n, step_to(d.sig, d.clock, m.n * Bar))
          [] m.u = "TAU" -> IF m.n = 0 THEN one(Reply("S_ERR", "", 0, <<>>, m.cur))
                            ELSE ok("TAU", m.n, [d.sig EXCEPT !.tau_s = m.n])
          [] m.u = "MODE" -> IF m.n = 0 THEN one(Reply("S_ERR", "BAD_MODE", 0, <<>>, m.cur))
                             ELSE ok("MODE", m.n, [d.sig EXCEPT !.mode = ModeName(m.n),
                                                               !.t0 = d.clock])
          [] m.u = "" -> one(Reply("S_ERR", "", 0, <<>>, m.cur))
          [] OTHER -> one(Reply("S_ERR", "BAD_KEY", 0, <<>>, m.cur))

\* DPSSim.handle_command from "if line == 'I'" on: the line as a command.
\* A line that still has a prefix (addr = 0: none is stripped) matches none.
dispatch(d, m) ==
    LET one(r) == [dev |-> d, out |-> <<r>>]
    IN  IF d.addr = 0 /\ m.pfx # <<>> THEN one(Reply("ERR", "", 0, <<>>, m.cur))
        ELSE CASE m.c = "I" -> one(Reply("ident", "", 0, <<>>, m.cur))
               [] m.c = "N" -> IF m.u # "" THEN one(Reply("ERR", "", 0, <<>>, m.cur))
                               ELSE [dev |-> [d EXCEPT !.addr = m.n],
                                     out |-> <<Reply("N", "", m.n, <<>>, m.cur)>>]
               [] m.c = "U" -> IF m.u \in UNITS_ALLOWED
                               THEN [dev |-> [d EXCEPT !.unit = m.u],
                                     out |-> <<Reply("U", m.u, 0, <<>>, m.cur)>>]
                               ELSE one(Reply("ERR", "", 0, <<>>, m.cur))
               [] m.c = "A" -> IF m.n \in {0, 1}
                               THEN [dev |-> [d EXCEPT !.autosend = (m.n = 1)],
                                     out |-> <<Reply("A", "", m.n, <<>>, m.cur)>>]
                               ELSE one(Reply("ERR", "", 0, <<>>, m.cur))
               [] m.c = "R" -> one(Reply("R", "", 0, EchoPfx(d), m.cur))
               [] m.c = "*G" -> one(Reply("G", d.unit, 0, EchoPfx(d), m.cur))
               [] m.c = "*T" -> one(Reply("T", "C", 0, EchoPfx(d), m.cur))
               [] m.c = "*Z" -> one(Reply("Z", "", 0, EchoPfx(d), m.cur))
               [] m.c = "S" -> step_command(d, m)
               [] OTHER -> one(Reply("ERR", "", 0, <<>>, m.cur))

\* A mutant of handle_command: the address prefix is not compared.
handle_command_NoFilter(d, m) == dispatch(d, m)

\* the commands handle_command has a branch for
RecognizedCommands == {"I", "N", "U", "A", "R", "*G", "*T", "*Z", "S"}

\* A mutant of handle_command: a line that is no command is not answered.
handle_command_DropsUnknown(d, m) ==
    IF addressed_elsewhere(d, m) \/ m.c \notin RecognizedCommands
    THEN [dev |-> d, out |-> <<>>]
    ELSE dispatch(d, m)

\* DPSSim.handle_command on one received line m: the new state of the
\* simulator and the lines sent (none when the line is addressed to another
\* device).
handle_command(d, m) ==
    IF addressed_elsewhere(d, m) THEN [dev |-> d, out |-> <<>>] ELSE dispatch(d, m)

\* DPSSim.serve: take the next complete line and hand it to handle_command;
\* _send_line puts the reply on the wire, which ends in the client's buffer.
serve ==
    /\ peer = "sim"
    /\ toSim # <<>>
    /\ LET h == handle_command(dev, Head(toSim))
       IN  /\ Len(inbuf) + Len(h.out) <= MaxInbuf
           /\ dev' = h.dev
           /\ inbuf' = inbuf \o h.out
    /\ toSim' = Tail(toSim)
    /\ UNCHANGED <<clientVars, peer, hc>>
    /\ UNCHANGED loggerVars

\* DPSSim._start_autosend / _send_measurement: the autosend thread writes a
\* measurement line, asked for by no command.
send_measurement ==
    /\ peer = "sim"
    /\ dev.autosend
    /\ Len(inbuf) < MaxInbuf
    /\ inbuf' = Append(inbuf, Reply("G", dev.unit, 0, EchoPfx(dev), FALSE))
    /\ UNCHANGED <<clientVars, toSim, simVars>>
    /\ UNCHANGED loggerVars

\* ---------------------------------------------------------------- client
\* The text _txrx_once makes of the bytes read: blank lines at the ends go.
Strip(resp) == SelectSeq(resp, LAMBDA l : l.k # "blank")

\* DPS8000._parse_value_unit on the text (a sequence of lines): float(v) of
\* the part before the first comma succeeds only for a measurement or raw
\* line without address prefix; the unit is everything after that comma.
ParseOk(txt) == Head(txt).k \in {"G", "Z"} /\ Head(txt).pfx = <<>>
ParsedUnit(txt) ==
    IF Len(txt) > 1 THEN "?"
    ELSE IF Head(txt).k = "G" THEN Head(txt).u ELSE "450.0"

\* The operation ends: with a value or with an exception.
Finish(status, cause, unit, newcfg) ==
    /\ pc' = "idle"
    /\ result' = [status |-> status, cause |-> cause, writes |-> writes, unit |-> unit]
    /\ writes' = writes
    /\ cfg' = newcfg
    /\ cmd' = NoCommand
    /\ todo' = <<>>
    /\ attempt' = 0
    /\ last_exc' = "none"
    /\ UNCHANGED <<ser_open, op, arg, cfg0, ncalls>>

\* A mutant of read_pressure_tail: the reply's unit is not compared.
read_pressure_tail_NoUnitCheck(txt) ==
    IF ~ParseOk(txt) THEN Finish("ValueError", "Parse", "", cfg)
    ELSE Finish("ok", "", Head(txt).u, cfg)

\* DPS8000.read_pressure after _safe_cmd returned txt
read_pressure_tail(txt) ==
    IF ~ParseOk(txt) THEN Finish("ValueError", "Parse", "", cfg)
    ELSE IF ParsedUnit(txt) # "" /\ cfg.unit # ""
            /\ Lower(ParsedUnit(txt)) # Lower(cfg.unit)
         THEN Finish("DPS8000Error", "UnitMismatch", "", cfg)
         ELSE Finish("ok", "", Head(txt).u, cfg)

\* _safe_cmd returned txt: what the public operation does next
Returned(txt) ==
    CASE op = "open" ->
            IF todo # <<>>
            THEN /\ cmd' = Head(todo)
                 /\ todo' = Tail(todo)
                 /\ attempt' = 0
                 /\ writes' = 0
                 /\ last_exc' = "none"
                 /\ pc' = "tx"
                 /\ UNCHANGED <<cfg, ser_open, op, arg, result, cfg0, ncalls>>
            ELSE Finish("ok", "", "", cfg)
      [] op = "set_unit" -> Finish("ok", "", "", [cfg EXCEPT !.unit = arg.u])
      [] op = "set_direct_mode" ->
            Finish("ok", "", "", [cfg EXCEPT !.direct_mode = TRUE, !.address = <<0>>])
      [] op = "set_address" ->
            Finish("ok", "", "",
                   [cfg EXCEPT !.direct_mode = (arg.n = 0), !.address = <<arg.n>>])
      [] op = "read_pressure" -> read_pressure_tail(txt)
      [] OTHER -> Finish("ok", "", "", cfg)

\* A mutant of Caught: the loop runs one attempt too many.
Caught_OneTooMany(exc) ==
    IF attempt <= cfg.retries
    THEN /\ attempt' = attempt + 1
         /\ last_exc' = exc
         /\ pc' = "tx"
         /\ UNCHANGED <<cfg, ser_open, op, arg, cmd, todo, writes, result, cfg0, ncalls>>
    ELSE Finish("DPS8000Error", exc, "", cfg)

\* _safe_cmd's except branch: remember the exception, back off, try again;
\* after the last attempt raise DPS8000Error naming last_exc.
Caught(exc) ==
    IF attempt < cfg.retries
    THEN /\ attempt' = attempt + 1
         /\ last_exc' = exc
         /\ pc' = "tx"
         /\ UNCHANGED <<cfg, ser_open, op, arg, cmd, todo, writes, result, cfg0, ncalls>>
    ELSE Finish("DPS8000Error", exc, "", cfg)

\* _txrx_once with the port closed: raises before anything is written
txrx_once_closed ==
    /\ pc = "tx"
    /\ ~ser_open
    /\ Caught("NotOpen")
    /\ UNCHANGED <<accepted, flushed>>
    /\ UNCHANGED <<wireVars, simVars>>
    /\ UNCHANGED loggerVars

\* A mutant of txrx_once_write: the input buffer is not cleared before the send.
txrx_once_write_NoReset ==
    /\ pc = "tx"
    /\ ser_open
    /\ peer # "silent" => Len(toSim) < MaxPending
    /\ inbuf' = [i \in 1..Len(inbuf) |-> [inbuf[i] EXCEPT !.cur = FALSE, !.pre = TRUE]]
    /\ flushed' = 0
    /\ toSim' = IF peer # "silent"
                THEN Append([i \in 1..Len(toSim) |-> [toSim[i] EXCEPT !.cur = FALSE]],
                            [pfx |-> prefix_addr(cfg), c |-> cmd.c, u |-> cmd.u,
                             n |-> cmd.n, cur |-> TRUE])
                ELSE toSim
    /\ writes' = writes + 1
    /\ pc' = "readline"
    /\ UNCHANGED <<cfg, ser_open, op, arg, cmd, todo, attempt, last_exc, result, cfg0, ncalls,
                   accepted, simVars>>
    /\ UNCHANGED loggerVars

\* _txrx_once up to the read: reset_input_buffer, write, flush, sleep.
\* A silent transport takes the bytes and answers nothing.
txrx_once_write ==
    /\ pc = "tx"
    /\ ser_open
    /\ peer # "silent" => Len(toSim) < MaxPending
    /\ inbuf' = <<>>
    /\ flushed' = Len(inbuf)
    /\ toSim' = IF peer # "silent"
                THEN Append([i \in 1..Len(toSim) |-> [toSim[i] EXCEPT !.cur = FALSE]],
                            [pfx |-> prefix_addr(cfg), c |-> cmd.c, u |-> cmd.u,
                             n |-> cmd.n, cur |-> TRUE])
                ELSE toSim
    /\ writes' = writes + 1
    /\ pc' = "readline"
    /\ UNCHANGED <<cfg, ser_open, op, arg, cmd, todo, attempt, last_exc, result, cfg0, ncalls,
                   accepted, simVars>>
    /\ UNCHANGED loggerVars

\* the bytes read, decoded and stripped: empty text is an exception
Received(resp) ==
    /\ IF Strip(resp) = <<>>
       THEN Caught("Empty") /\ accepted' = accepted
       ELSE Returned(Strip(resp)) /\ accepted' = Strip(resp)
    /\ flushed' = flushed

\* ser.readline() returns: no LF ever comes, so it returns what arrived
\* before the line fell silent for timeout_s
readline_data ==
    /\ pc = "readline"
    /\ inbuf # <<>>
    /\ inbuf' = <<>>
    /\ Received(inbuf)
    /\ UNCHANGED <<toSim, simVars>>
    /\ UNCHANGED loggerVars

\* A mutant of readline_timeout: the command is written again at once, the
\* wait for the first one's reply going on.
readline_timeout_Resend ==
    /\ pc = "readline"
    /\ inbuf = <<>>
    /\ pc' = "read_until"
    /\ writes' = writes + 1
    /\ UNCHANGED <<cfg, ser_open, op, arg, cmd, todo, attempt, last_exc, result, cfg0,
                   ncalls, accepted, flushed, wireVars, simVars>>
    /\ UNCHANGED loggerVars

\* ser.readline() times out with nothing read: read_until is tried
readline_timeout ==
    /\ pc = "readline"
    /\ inbuf = <<>>
    /\ pc' = "read_until"
    /\ UNCHANGED <<cfg, ser_open, op, arg, cmd, todo, attempt, writes, last_exc, result, cfg0,
                   ncalls, accepted, flushed,
                   wireVars, simVars>>
    /\ UNCHANGED loggerVars

\* ser.read_until(b"\r") returns the first line
read_until_data ==
    /\ pc = "read_until"
    /\ inbuf # <<>>
    /\ inbuf' = Tail(inbuf)
    /\ Received(<<Head(inbuf)>>)
    /\ UNCHANGED <<toSim, simVars>>
    /\ UNCHANGED loggerVars

\* ser.read_until times out too: "Timeout waiting response"
read_until_timeout ==
    /\ pc = "read_until"
    /\ inbuf = <<>>
    /\ Caught("Timeout")
    /\ UNCHANGED <<accepted, flushed>>
    /\ UNCHANGED <<wireVars, simVars>>
    /\ UNCHANGED loggerVars

\* ---------------------------------------------------------------- public operations
\* the last public operation has returned or raised
Done == pc = "idle" /\ result.status # "none"

\* A public operation begins: _safe_cmd(cmds[1]) is entered.
StartCall(o, a, cmds) ==
    /\ pc = "idle"
    /\ op' = o
    /\ arg' = a
    /\ cmd' = Head(cmds)
    /\ todo' = Tail(cmds)
    /\ attempt' = 0
    /\ writes' = 0
    /\ last_exc' = "none"
    /\ result' = NoResult
    /\ cfg0' = cfg
    /\ accepted' = <<>>
    /\ flushed' = 0
    /\ pc' = "tx"
    /\ UNCHANGED <<cfg, wireVars, simVars>>

\* DPS8000.open: the init commands the configuration asks for
InitCmds(c) ==
    (IF c.direct_mode /\ ~Truthy(c.address) THEN <<Command("N", "", 0)>>
     ELSE IF c.address # <<>> THEN <<Command("N", "", c.address[1])>>
     ELSE <<>>)
    \o (IF c.unit # "" THEN <<Command("U", c.unit, 0)>> ELSE <<>>)
    \o (IF c.autosend_off THEN <<Command("A", "", 0)>> ELSE <<>>)

\* DPS8000.open on a closed client: the port is opened, then initialised
open ==
    /\ ~ser_open
    /\ ser_open' = TRUE
    /\ StartCall("open", NoArg, InitCmds(cfg))

\* DPS8000.close
close ==
    /\ pc = "idle"
    /\ ser_open
    /\ ser_open' = FALSE
    /\ UNCHANGED <<cfg, pc, op, arg, cmd, todo, attempt, writes, last_exc, result, cfg0,
                   accepted, flushed,
                   wireVars, simVars>>

identify == StartCall("identify", NoArg, <<Command("I", "", 0)>>) /\ UNCHANGED ser_open

set_unit(u) ==
    StartCall("set_unit", [u |-> u, n |-> 0], <<Command("U", u, 0)>>) /\ UNCHANGED ser_open

set_autosend(on) ==
    StartCall("set_autosend", [u |-> "", n |-> IF on THEN 1 ELSE 0],
              <<Command("A", "", IF on THEN 1 ELSE 0)>>) /\ UNCHANGED ser_open

set_direct_mode ==
    StartCall("set_direct_mode", NoArg, <<Command("N", "", 0)>>) /\ UNCHANGED ser_open

set_address(a) ==
    StartCall("set_address", [u |-> "", n |-> a], <<Command("N", "", a)>>)
    /\ UNCHANGED ser_open

read_pressure == StartCall("read_pressure", NoArg, <<Command("*G", "", 0)>>) /\ UNCHANGED ser_open

read_raw == StartCall("read_raw", NoArg, <<Command("*Z", "", 0)>>) /\ UNCHANGED ser_open

\* ---------------------------------------------------------------- the port's other end
\* a device that answers every line with a bare CR
serve_blank ==
    /\ peer = "blank"
    /\ toSim # <<>>
    /\ Len(inbuf) < MaxInbuf
    /\ inbuf' = Append(inbuf, Reply("blank", "", 0, <<>>, Head(toSim).cur))
    /\ toSim' = Tail(toSim)
    /\ UNCHANGED <<clientVars, simVars>>
    /\ UNCHANGED loggerVars

\* ---------------------------------------------------------------- specification
DefaultConfig(r) ==
    [unit |-> "bar", direct_mode |-> TRUE, address |-> <<>>, retries |-> r,
     autosend_off |-> TRUE]

\* SignalCfg's defaults, and Signal.t0 of a simulator started at tick 0
DefaultSignal ==
    [mode |-> "settle", offset |-> Bar, p1 |-> Bar + Bar \div 2, p2 |-> Bar, tau_s |-> 30,
     t0 |-> 0]

\* DeviceCfg's defaults; clock is the simulator's perf_counter(), in ticks
DefaultDeviceCfg ==
    [unit |-> "bar", addr |-> 0, autosend |-> FALSE, echo_address_in_reply |-> FALSE,
     sig |-> DefaultSignal, clock |-> 0]
\* the simulator started with or without --echo-addr
DeviceCfgs == {[DefaultDeviceCfg EXCEPT !.echo_address_in_reply = e] : e \in BOOLEAN}
\* DeviceCfg's defaults, and the simulator started with or without --autosend
AutosendCfgs == {[DefaultDeviceCfg EXCEPT !.autosend = a] : a \in BOOLEAN}

\* DPSSim.serve has read nothing: buf = b""
ServeIdle ==
    /\ stream = <<>>
    /\ rx = <<>>
    /\ buf = <<>>
    /\ handled = <<>>

\* DPSSim.__init__: no autosend thread, the Event clear, nobody writing
ThreadIdle ==
    /\ lock = ""
    /\ stop = FALSE
    /\ athr = [t \in {"t1", "t2"} |-> "none"]
    /\ autosend_thr = ""
    /\ mline = [t \in {"t1", "t2"} |-> [conv |-> "", label |-> ""]]
    /\ quiet = FALSE
    /\ dpc = "idle"
    /\ dcmd = NoCommand
    /\ wpos = [w \in {"cmd", "t1", "t2"} |-> 0]
    /\ wire = <<>>

\* the days of the model
MaxDays == 2
Days == 1..MaxDays

\* CSVRotatingWriter.__init__ in an empty directory
CsvIdle ==
    /\ today = 1
    /\ wdate = 0
    /\ fh = 0
    /\ files = [d \in Days |-> <<>>]
    /\ nrows = 0
    /\ handles = [d \in Days |-> 0]
    /\ peak = 0
    /\ since_flush = 0
    /\ unflushed = 0
    /\ wlast = [op |-> "", opened |-> FALSE]

\* the error-log paths of the model
Paths == {"run1/error.log", "run2/error.log"}
MaxObjs == 2

\* no ErrorLog has been made
ErrIdle ==
    /\ log_list = {}
    /\ elogs = [o \in 1..MaxObjs |-> [alive |-> FALSE, full_path |-> "", is_header |-> FALSE]]
    /\ efiles = [p \in Paths |-> <<>>]
    /\ elast = [op |-> "", raised |-> FALSE, path |-> "", before |-> [p \in Paths |-> <<>>]]

\* datalogger-stem as run_logger is entered
StemIdle ==
    /\ spc = "sync"
    /\ halt_requested = FALSE
    /\ stem_disable_halt = FALSE
    /\ rows = 0
    /\ halt_at = [at |-> "", rows |-> 0]
    /\ stem_end = [at |-> "", reported |-> -1, code |-> -1]

NoCall == [n |-> 0, line |-> <<>>, before |-> DefaultDeviceCfg, out |-> <<>>]

PeerInit(peers, cfgs) ==
    /\ peer \in peers
    /\ dev \in cfgs
    /\ hc = NoCall
    /\ peer # "sim" => dev = DefaultDeviceCfg

ClientInit ==
    /\ \E r \in 0..MaxRetries : cfg = DefaultConfig(r)
    /\ ser_open = FALSE
    /\ pc = "idle"
    /\ op = "none"
    /\ arg = NoArg
    /\ cmd = NoCommand
    /\ todo = <<>>
    /\ attempt = 0
    /\ writes = 0
    /\ last_exc = "none"
    /\ result = NoResult
    /\ cfg0 = cfg
    /\ ncalls = 0
    /\ accepted = <<>>
    /\ flushed = 0
    /\ inbuf = <<>>
    /\ toSim = <<>>

NoRow == [pressure |-> "", value_unit |-> "", unit |-> "", source |-> "", extra |-> 0]
NoCycle ==
    [k |-> 0, done |-> FALSE, fault |-> "", row |-> FALSE, err |-> FALSE, sink |-> FALSE,
     kept |-> FALSE]
NotEnded ==
    [how |-> "", at |-> "", code |-> 0, inflight |-> FALSE, partial |-> FALSE,
     logged |-> FALSE, total |-> FALSE]

LoggerIdle ==
    /\ count = 0
    /\ tp0 = 0
    /\ now = 0
    /\ disable_halt = FALSE
    /\ row = NoRow
    /\ cyc = NoCycle
    /\ ended = NotEnded
    /\ ignored = FALSE

Init ==
    /\ ClientInit
    /\ PeerInit({"sim", "silent", "blank"}, DeviceCfgs)
    /\ lpc = "off"
    /\ with_raw = FALSE
    /\ LoggerIdle
    /\ ServeIdle
    /\ ThreadIdle
    /\ CsvIdle
    /\ ErrIdle
    /\ StemIdle

\* the client driven directly: any public operation, whenever the last one ended
User(call) ==
    /\ lpc = "off"
    /\ ncalls < MaxCalls
    /\ ncalls' = ncalls + 1
    /\ call
    /\ UNCHANGED loggerVars

Next ==
    \/ User(open)
    \/ User(close)
    \/ User(identify)
    \/ \E u \in UnitArgs : User(set_unit(u))
    \/ \E on \in BOOLEAN : User(set_autosend(on))
    \/ User(set_direct_mode)
    \/ \E a \in AddrArgs : User(set_address(a))
    \/ User(read_pressure)
    \/ User(read_raw)
    \/ txrx_once_closed
    \/ txrx_once_write
    \/ readline_data
    \/ readline_timeout
    \/ read_until_data
    \/ read_until_timeout
    \/ serve
    \/ send_measurement
    \/ serve_blank

Spec == Init /\ [][Next]_vars

\* ---------------------------------------------------------------- logger
\* dps_logger.DEFAULT_UNIT: --unit, the adapter's device_unit and target_unit
rt_unit == "bar"

LoggerInit ==
    /\ ClientInit
    /\ PeerInit({"sim", "silent"}, AutosendCfgs)
    /\ lpc = "start"
    /\ with_raw \in BOOLEAN
    /\ LoggerIdle
    /\ ServeIdle
    /\ ThreadIdle
    /\ CsvIdle
    /\ ErrIdle
    /\ StemIdle

Running == {"opening", "ident", "wait", "read", "raw", "write", "log"}

\* the part of the loop body that disable_halt protects
Busy == {"read", "raw", "write", "log"}

\* perf_counter() advances while a cycle waits for the port: a tick is
\* timeout_s, the time a read takes to give up. (Time spent before tp0 is
\* taken shifts every later time alike and is left out.)
Tick ==
    /\ lpc \in {"read", "raw"}
    /\ pc \in {"readline", "read_until"}
    /\ now < MaxTime
    /\ now' = now + 1
    /\ UNCHANGED <<lpc, sideVars, count, tp0, disable_halt, row, cyc, histVars>>
    /\ UNCHANGED <<clientVars, wireVars, simVars>>

\* run_logger up to rt.adapter.open()
run_logger ==
    /\ lpc = "start"
    /\ lpc' = "opening"
    /\ open
    /\ UNCHANGED <<ncalls, sideVars, count, tp0, now, disable_halt, row, cyc, histVars>>

\* an exception leaves run_logger: the inner finally clears disable_halt, the
\* outer finally closes the adapter, and the process ends as e says
Propagate(to, e) ==
    /\ lpc' = to
    /\ ended' = e
    /\ ser_open' = FALSE
    /\ disable_halt' = FALSE
    /\ pc' = "idle"
    /\ cmd' = NoCommand
    /\ todo' = <<>>
    /\ attempt' = 0
    /\ last_exc' = "none"
    /\ UNCHANGED <<cfg, op, arg, writes, result, cfg0, ncalls, accepted, flushed>>
    /\ UNCHANGED <<sideVars, count, tp0, now, row, cyc>>
    /\ UNCHANGED <<wireVars, simVars>>

\* how the process ends when an exception leaves run_logger uncaught
Uncaught == [NotEnded EXCEPT !.how = "exception", !.at = lpc, !.code = 1]

\* rt.adapter.open() returned or raised; "IDENT once" follows
opened ==
    /\ lpc = "opening"
    /\ Done
    /\ IF result.status = "ok"
       THEN /\ lpc' = "ident"
            /\ identify
            /\ UNCHANGED <<ncalls, sideVars, count, tp0, now, disable_halt, row, cyc,
                           histVars>>
       ELSE Propagate("crashed", Uncaught) /\ UNCHANGED ignored

\* A mutant of identified: identify()'s DPS8000Error is not caught.
identified_Uncaught ==
    /\ lpc = "ident"
    /\ Done
    /\ IF result.status = "ok"
       THEN /\ lpc' = "wait"
            /\ tp0' = now
            /\ count' = 0
            /\ UNCHANGED <<sideVars, now, disable_halt, row, cyc, histVars>>
            /\ UNCHANGED <<clientVars, wireVars, simVars>>
       ELSE Propagate("crashed", Uncaught) /\ UNCHANGED ignored

\* rt.adapter.identify() returned or raised DPS8000Error (caught); the time
\* is synchronised and tp0 taken
identified ==
    /\ lpc = "ident"
    /\ Done
    /\ lpc' = "wait"
    /\ tp0' = now
    /\ count' = 0
    /\ UNCHANGED <<sideVars, now, disable_halt, row, cyc, histVars>>
    /\ UNCHANGED <<clientVars, wireVars, simVars>>

\* A mutant of wait_time: the wait ends one interval early.
wait_time_Early == (count - 1) * Interval - (now - tp0)

\* A mutant of wait_time: a full interval is slept after every cycle.
wait_time_AfterCycle == Interval

\* the wait at the end of the loop body
wait_time == count * Interval - (now - tp0)

\* "Wait for next interval", then the top of the loop: disable_halt is set,
\* the times are taken and dps_read_once calls the adapter's read_sample,
\* which calls read_pressure
next_cycle ==
    /\ lpc = "wait"
    /\ now' = IF wait_time > 0 THEN now + wait_time ELSE now
    /\ now' <= MaxTime
    /\ ignored' = FALSE
    /\ disable_halt' = TRUE
    /\ lpc' = "read"
    /\ read_pressure
    /\ UNCHANGED <<ncalls, sideVars, count, tp0, row, cyc, ended>>

\* run_logger's header: the columns of the data log
header ==
    LET fixed == <<"ts_iso", "t_perf", "pressure", "unit", "source", "cpu_temp_c",
                   "arm_freq_hz", "throttled_raw">>
    IN  IF with_raw THEN Append(fixed, "raw") ELSE fixed

\* the separators (csv_sep, ",") inside one line of the wire: the identity
\* string has three, an echo and a measurement or raw line one each
Commas(line) ==
    CASE line.k = "ident" -> 3
      [] line.k \in {"N", "U", "A", "G", "Z"} -> 1
      [] OTHER -> 0

\* the separators inside a text of several lines
RECURSIVE TextCommas(_)
TextCommas(txt) == IF txt = <<>> THEN 0 ELSE Commas(Head(txt)) + TextCommas(Tail(txt))

\* the separators inside the message of the DPS8000Error res: the unit
\* mismatch message quotes the reply text after its first comma
ErrCommas(res) == IF res.cause = "UnitMismatch" THEN TextCommas(accepted) - 1 ELSE 0

\* the row dps_read_once builds of the sample s; extra counts the
\* separators inside its source and raw fields
Row(s) ==
    [pressure |-> s.pressure, value_unit |-> s.value_unit, unit |-> s.unit,
     source |-> s.source, extra |-> s.extra]

\* DataLog.write joins the fields with csv_sep as they are: the fields a
\* reader of the line finds
Fields(r) == Len(header) + r.extra

\* DPS8000Adapter.read_sample's return value
Sample(res) ==
    [pressure |-> "value", value_unit |-> res.unit, unit |-> rt_unit, source |-> "DPS8000",
     extra |-> 0]

\* dps_read_once's except branch: the NaN sample, the message in its source
\* and, with --with-raw, in its raw
NaNSample ==
    [pressure |-> "", value_unit |-> "", unit |-> rt_unit, source |-> "DPS8000_ERR",
     extra |-> ErrCommas(result) * (IF with_raw THEN 2 ELSE 1)]

\* read_sample_with_raw: sample["raw"] is the *Z reply as it came, or
\* "RAW_ERR:<message>"
WithRaw(s, res) ==
    [s EXCEPT !.extra = IF res.status = "ok" THEN TextCommas(accepted) ELSE 0]

\* the cycle the device read of which has just ended with fault
Cycle(fault) ==
    [k |-> count, done |-> FALSE, fault |-> fault, row |-> FALSE, err |-> FALSE,
     sink |-> FALSE, kept |-> FALSE]

\* dps_read_once returns the row of sample s: data_log.write(row) is next
ToDataLog(s, fault) ==
    /\ row' = Row(s)
    /\ cyc' = Cycle(fault)
    /\ lpc' = "write"
    /\ UNCHANGED <<sideVars, count, tp0, now, disable_halt, histVars>>
    /\ UNCHANGED <<clientVars, wireVars, simVars>>

\* an exception other than DPS8000Error leaves dps_read_once: the loop
\* body's "except Exception" is next
ToErrorLog(fault) ==
    /\ cyc' = Cycle(fault)
    /\ lpc' = "log"
    /\ UNCHANGED <<sideVars, count, tp0, now, disable_halt, row, histVars>>
    /\ UNCHANGED <<clientVars, wireVars, simVars>>

\* read_pressure returned or raised inside read_sample: dps_read_once has
\* its sample, or read_sample_with_raw goes on to read_raw
read_sample ==
    /\ lpc = "read"
    /\ Done
    /\ CASE result.status = "ok" ->
                IF with_raw
                THEN /\ lpc' = "raw"
                     /\ row' = Row(Sample(result))
                     /\ read_raw
                     /\ UNCHANGED <<ncalls, sideVars, count, tp0, now, disable_halt,
                                    cyc, histVars>>
                ELSE ToDataLog(Sample(result), "")
         [] result.status = "DPS8000Error" -> ToDataLog(NaNSample, "DPS8000Error")
         [] OTHER -> ToErrorLog(result.status)

\* read_raw returned or raised DPS8000Error (caught: raw is "RAW_ERR:...")
read_sample_with_raw ==
    /\ lpc = "raw"
    /\ Done
    /\ ToDataLog(WithRaw(row, result), "")

\* A mutant of WriteRow: a signal ignored during the cycle stops the logger
\* when the cycle ends.
WriteRow_HonoursStop ==
    /\ lpc = "write"
    /\ count' = count + 1
    /\ cyc' = [cyc EXCEPT !.done = TRUE, !.row = (row.pressure = "")]
    /\ disable_halt' = FALSE
    /\ lpc' = IF ignored THEN "stopped" ELSE "wait"
    /\ UNCHANGED <<sideVars, tp0, now, row, histVars>>
    /\ UNCHANGED <<clientVars, wireVars, simVars>>

\* data_log.write(row) returned: count is incremented, the finally clears
\* disable_halt
WriteRow ==
    /\ lpc = "write"
    /\ count' = count + 1
    /\ cyc' = [cyc EXCEPT !.done = TRUE, !.row = (row.pressure = "")]
    /\ disable_halt' = FALSE
    /\ lpc' = "wait"
    /\ UNCHANGED <<sideVars, tp0, now, row, histVars>>
    /\ UNCHANGED <<clientVars, wireVars, simVars>>

\* data_log.write(row) raised (OSError: the disk is full, the file is gone)
\* and the row is not in the file, or it returned and the print of the row
\* after it raised (OSError: the standard output is a closed pipe) and the
\* row is in the file: the loop body's "except Exception" is next
WriteRowFails ==
    /\ lpc = "write"
    /\ \E appended \in BOOLEAN : cyc' = [cyc EXCEPT !.sink = TRUE, !.kept = appended]
    /\ lpc' = "log"
    /\ UNCHANGED <<sideVars, count, tp0, now, disable_halt, row, histVars>>
    /\ UNCHANGED <<clientVars, wireVars, simVars>>

\* A mutant of LogError: the handler leaves disable_halt set.
LogError_KeepsFlag ==
    /\ lpc = "log"
    /\ cyc' = [cyc EXCEPT !.done = TRUE, !.err = TRUE, !.kept = FALSE]
    /\ lpc' = "wait"
    /\ UNCHANGED <<sideVars, count, tp0, now, disable_halt, row, histVars>>
    /\ UNCHANGED <<clientVars, wireVars, simVars>>

\* A mutant of LogError: the exception is swallowed, nothing is logged.
LogError_Swallowed ==
    /\ lpc = "log"
    /\ cyc' = [cyc EXCEPT !.done = TRUE, !.kept = FALSE]
    /\ disable_halt' = FALSE
    /\ lpc' = "wait"
    /\ UNCHANGED <<sideVars, count, tp0, now, row, histVars>>
    /\ UNCHANGED <<clientVars, wireVars, simVars>>

\* the loop body's "except Exception": err_log.write returned; a line in the
\* error log, no row, count as it was; the finally clears disable_halt
LogError ==
    /\ lpc = "log"
    /\ cyc' = [cyc EXCEPT !.done = TRUE, !.err = TRUE, !.kept = FALSE]
    /\ disable_halt' = FALSE
    /\ lpc' = "wait"
    /\ UNCHANGED <<sideVars, count, tp0, now, row, histVars>>
    /\ UNCHANGED <<clientVars, wireVars, simVars>>

\* err_log.write raised inside the loop body's handler: the finally clears
\* disable_halt and the outer "except Exception" writes the "fatal:" line
\* and returns 2, or, that write raising as well, the exception leaves
\* run_logger
LogErrorFails ==
    /\ lpc = "log"
    /\ \E written \in BOOLEAN :
            Propagate("fatal", [NotEnded EXCEPT !.how = "fatal", !.at = lpc,
                                                !.logged = written,
                                                !.code = IF written THEN 2 ELSE 1])
    /\ UNCHANGED ignored

\* how the process ends on SystemExit(0) raised by the signal handler: the
\* print of the total after the outer finally is not reached
Stopped ==
    [NotEnded EXCEPT !.how = "stop", !.at = lpc,
                     !.inflight = (pc \in {"readline", "read_until"}),
                     !.partial = (lpc = "write")]

\* A mutant of sig_handler: disable_halt is not looked at.
sig_handler_Unguarded ==
    /\ lpc \in Running
    /\ Propagate("stopped", Stopped)
    /\ ignored' = FALSE

\* _sig_handler: ignored while disable_halt, SystemExit(0) otherwise: the
\* exception passes both "except Exception" and the finally closes the adapter
sig_handler ==
    /\ lpc \in Running
    /\ IF disable_halt
       THEN /\ ignored' = (ignored \/ lpc \in {"write", "log"})
            /\ UNCHANGED <<lpc, sideVars, count, tp0, now, disable_halt, row, cyc, ended>>
            /\ UNCHANGED <<clientVars, wireVars, simVars>>
       ELSE /\ Propagate("stopped", Stopped)
            /\ ignored' = FALSE

\* rs485_pressure_sim.main: mid-run the simulator is started anew with another --unit
sim_restart ==
    /\ lpc \in {"wait", "read", "raw"}
    /\ peer = "sim"
    /\ \E u \in UNITS_ALLOWED \ {dev.unit} : dev' = [dev EXCEPT !.unit = u]
    /\ UNCHANGED <<clientVars, wireVars, peer, hc, loggerVars>>

LoggerNext ==
    \/ run_logger
    \/ opened
    \/ identified
    \/ next_cycle
    \/ read_sample
    \/ read_sample_with_raw
    \/ WriteRow
    \/ WriteRowFails
    \/ LogError
    \/ LogErrorFails
    \/ sig_handler
    \/ Tick
    \/ txrx_once_write
    \/ readline_data
    \/ readline_timeout
    \/ read_until_data
    \/ read_until_timeout
    \/ serve
    \/ send_measurement
    \/ sim_restart

LoggerSpec == LoggerInit /\ [][LoggerNext]_vars

\* ---------------------------------------------------------------- simulator alone
\* the addresses of the model: direct mode and two network addresses of 1..31
SimAddrs == {0, 3, 5}
\* the largest address of the protocol (DPS8000.set_address: 0 <= addr <= 31)
MaxAddress == 31

\* the lines handle_command is given: every command of the protocol, well
\* and ill formed, bare and behind the prefix of either network address
SimCommands ==
    {Command("I", "", 0), Command("R", "", 0), Command("*G", "", 0), Command("*T", "", 0),
     Command("*Z", "", 0), Command("X", "", 0), Command("N", "x", 0),
     Command("U", "Pa", 0), Command("U", "atm", 0), Command("A", "", 1), Command("A", "", 2),
     Command("S", "P2", 2), Command("S", "TAU", 0), Command("S", "MODE", 2),
     Command("S", "MODE", 0), Command("S", "KEY", 1), Command("S", "", 0)}
        \cup {Command("N", "", a) : a \in SimAddrs \cup {MaxAddress + 1}}
SimLines ==
    {[pfx |-> p, c |-> m.c, u |-> m.u, n |-> m.n, cur |-> TRUE] :
        p \in {<<>>} \cup {<<a>> : a \in SimAddrs \ {0}}, m \in SimCommands}

\* rs485_pressure_sim.parse_args: --addr, --echo-addr
SimCfgs ==
    {[DefaultDeviceCfg EXCEPT !.addr = a, !.echo_address_in_reply = e] :
        a \in SimAddrs, e \in BOOLEAN}

SimInit ==
    /\ ClientInit
    /\ PeerInit({"sim"}, SimCfgs)
    /\ lpc = "off"
    /\ with_raw = FALSE
    /\ LoggerIdle
    /\ ServeIdle
    /\ ThreadIdle
    /\ CsvIdle
    /\ ErrIdle
    /\ StemIdle

\* one line reaches the simulator, which handles it
handle_line(m) ==
    /\ peer = "sim"
    /\ LET h == handle_command(dev, m)
       IN  /\ dev' = h.dev
           /\ hc' = [n |-> 1, line |-> m, before |-> dev, out |-> h.out]
    /\ UNCHANGED <<clientVars, wireVars, peer, loggerVars>>

SimNext == \E m \in SimLines : handle_line(m)

SimSpec == SimInit /\ [][SimNext]_vars

\* ---------------------------------------------------------------- simulator's signal
MaxClock == 3

\* the step commands, well and ill formed, and a measurement
SignalLines ==
    {[pfx |-> <<>>, c |-> m.c, u |-> m.u, n |-> m.n, cur |-> TRUE] :
        m \in {Command("S", "P2", 1), Command("S", "P2", 2), Command("S", "P2", 0),
               Command("S", "TAU", 2), Command("S", "TAU", 30), Command("S", "MODE", 1),
               Command("S", "MODE", 2), Command("S", "MODE", 0), Command("S", "TAU", 0),
               Command("S", "", 0), Command("R", "", 0)}}

SignalInit ==
    /\ ClientInit
    /\ PeerInit({"sim"}, {DefaultDeviceCfg})
    /\ lpc = "off"
    /\ with_raw = FALSE
    /\ LoggerIdle
    /\ ServeIdle
    /\ ThreadIdle
    /\ CsvIdle
    /\ ErrIdle
    /\ StemIdle

\* time.perf_counter() of the simulator moves on
clock_tick ==
    /\ peer = "sim"
    /\ dev.clock < MaxClock
    /\ dev' = [dev EXCEPT !.clock = dev.clock + 1]
    /\ UNCHANGED <<clientVars, wireVars, peer, hc, loggerVars>>

SignalNext ==
    \/ clock_tick
    \/ \E m \in SignalLines : handle_line(m)

SignalSpec == SignalInit /\ [][SignalNext]_vars

\* ---------------------------------------------------------------- serve's line splitting
MaxStream == 4

\* the bytes of the model: two letters, carriage return and line feed
Bytes == {"A", "B", "CR", "LF"}

\* bytes.find(sep): the index of the first sep in b, counted from 1; 0 for none
Find(b, sep) ==
    IF \E i \in 1..Len(b) : b[i] = sep
    THEN CHOOSE i \in 1..Len(b) : b[i] = sep /\ \A j \in 1..(i - 1) : b[j] # sep
    ELSE 0

\* str.strip() on a line of the model: the line feeds at its ends go
RECURSIVE StripLine(_)
StripLine(l) ==
    IF l = <<>> THEN l
    ELSE IF Head(l) \in {"CR", "LF"} THEN StripLine(Tail(l))
    ELSE IF l[Len(l)] \in {"CR", "LF"} THEN StripLine(SubSeq(l, 1, Len(l) - 1))
    ELSE l

\* DPSSim.serve's inner while loop on buf b, h the lines handled so far: as
\* long as b holds a CR or an LF it is cut at its first CR, or without a CR
\* at its first LF, and a line that is not blank goes to handle_command,
\* which strips it
RECURSIVE split_lines(_, _)
split_lines(b, h) ==
    LET idx == IF Find(b, "CR") # 0 THEN Find(b, "CR") ELSE Find(b, "LF")
        line == SubSeq(b, 1, idx - 1)
    IN  IF idx = 0 THEN [buf |-> b, handled |-> h]
        ELSE split_lines(SubSeq(b, idx + 1, Len(b)),
                         IF StripLine(line) # <<>> THEN Append(h, StripLine(line)) ELSE h)

RECURSIVE ByteSeqs(_)
ByteSeqs(n) ==
    IF n = 0 THEN {<<>>}
    ELSE ByteSeqs(n - 1) \cup {Append(q, b) : q \in {x \in ByteSeqs(n - 1) : Len(x) = n - 1}, b \in Bytes}

ServeInit ==
    /\ ClientInit
    /\ PeerInit({"sim"}, {DefaultDeviceCfg})
    /\ lpc = "off"
    /\ with_raw = FALSE
    /\ LoggerIdle
    /\ ThreadIdle
    /\ CsvIdle
    /\ ErrIdle
    /\ StemIdle
    /\ stream \in ByteSeqs(MaxStream)
    /\ rx = stream
    /\ buf = <<>>
    /\ handled = <<>>

\* one round of DPSSim.serve's loop: ser.read returns the next n bytes, they
\* are added to buf, and buf is split
serve_chunk(n) ==
    /\ n \in 1..Len(rx)
    /\ LET r == split_lines(buf \o SubSeq(rx, 1, n), handled)
       IN  /\ buf' = r.buf
           /\ handled' = r.handled
    /\ rx' = SubSeq(rx, n + 1, Len(rx))
    /\ UNCHANGED <<stream, with_raw, threadVars, csvVars, errVars, stemVars>>
    /\ UNCHANGED <<clientVars, wireVars, simVars>>
    /\ UNCHANGED <<lpc, count, tp0, now, disable_halt, row, cyc, histVars>>

ServeNext == \E n \in 1..MaxStream : serve_chunk(n)

ServeSpec == ServeInit /\ [][ServeNext]_vars

\* ---------------------------------------------------------------- simulator's threads
MaxWire == 4

\* a line on the wire is its body and its CR
LineBytes == 2

\* the threading.Thread objects _start_autosend can make in the model (one
\* that is dead is forgotten and its name taken again)
Threads == {"t1", "t2"}

\* a measurement line not built yet
NoLine == [conv |-> "", label |-> ""]

\* A mutant of acquire: the port is written without the lock.
acquire_NoLock(who) == lock' = who

\* "with self._lock:" is entered
acquire(who) == lock = "" /\ lock' = who

\* ser.write gives the next byte of the line to the port; after the last
\* one (and the flush) the with block is left
write_byte(who) ==
    /\ wire' = (IF Len(wire) < MaxWire THEN wire ELSE Tail(wire))
                    \o <<[by |-> who, i |-> wpos[who] + 1]>>
    /\ wpos' = [wpos EXCEPT ![who] = IF wpos[who] + 1 = LineBytes THEN 0 ELSE wpos[who] + 1]
    /\ lock' = IF wpos[who] + 1 = LineBytes THEN "" ELSE lock

\* Thread.is_alive
is_alive(t) == athr[t] \notin {"none", "dead"}

\* A mutant of thread_alive: A,1 never finds a running thread.
thread_alive_Never == FALSE

\* "self._autosend_thr and self._autosend_thr.is_alive()"
thread_alive == autosend_thr # "" /\ is_alive(autosend_thr)

\* _start_autosend: a new Thread is made, kept in _autosend_thr and started
start_autosend ==
    LET free == {t \in Threads : ~is_alive(t)}
        pick == IF free \ {autosend_thr} # {} THEN CHOOSE t \in free \ {autosend_thr} : TRUE
                ELSE CHOOSE t \in free : TRUE
    IN  /\ free # {}
        /\ athr' = [athr EXCEPT ![pick] = "test"]
        /\ autosend_thr' = pick

ThreadRest == UNCHANGED <<clientVars, wireVars, peer, hc, with_raw, serveVars, csvVars, errVars, stemVars>>
                /\ UNCHANGED <<lpc, count, tp0, now, disable_halt, row, cyc, histVars>>

\* DPSSim.open (the simulator started with or without --autosend)
ThreadInit ==
    /\ ClientInit
    /\ PeerInit({"sim"}, AutosendCfgs)
    /\ lpc = "off"
    /\ with_raw = FALSE
    /\ LoggerIdle
    /\ ServeIdle
    /\ CsvIdle
    /\ ErrIdle
    /\ StemIdle
    /\ lock = ""
    /\ stop = FALSE
    /\ athr = [t \in Threads |-> IF dev.autosend /\ t = "t1" THEN "test" ELSE "none"]
    /\ autosend_thr = IF dev.autosend THEN "t1" ELSE ""
    /\ mline = [t \in Threads |-> NoLine]
    /\ quiet = FALSE
    /\ dpc = "idle"
    /\ dcmd = NoCommand
    /\ wpos = [w \in {"cmd"} \cup Threads |-> 0]
    /\ wire = <<>>

\* handle_command on A,0 A,1 U or *G, up to its _send_line
cmd_handle(c) ==
    /\ dpc = "idle"
    /\ dcmd' = c
    /\ dpc' = "send"
    /\ dev' = handle_command(dev, [pfx |-> <<>>, c |-> c.c, u |-> c.u, n |-> c.n, cur |-> TRUE]).dev
    /\ stop' = IF c.c = "A" THEN (c.n = 0) ELSE stop
    /\ quiet' = IF c.c = "A" /\ c.n = 1 THEN FALSE ELSE quiet
    /\ UNCHANGED <<lock, athr, autosend_thr, mline, wpos, wire>>
    /\ ThreadRest

\* _send_line of the reply: the lock is taken
cmd_acquire ==
    /\ dpc = "send"
    /\ acquire("cmd")
    /\ dpc' = "write"
    /\ UNCHANGED <<dev, stop, athr, autosend_thr, mline, quiet, dcmd, wpos, wire>>
    /\ ThreadRest

\* the reply is written; after A,1 the handler goes on to the thread
cmd_write ==
    /\ dpc = "write"
    /\ write_byte("cmd")
    /\ dpc' = IF wpos["cmd"] + 1 < LineBytes THEN "write"
              ELSE IF dcmd.c = "A" /\ dcmd.n = 1 THEN "start" ELSE "idle"
    /\ quiet' = IF wpos["cmd"] + 1 = LineBytes /\ dcmd.c = "A" /\ dcmd.n = 0 THEN TRUE ELSE quiet
    /\ UNCHANGED <<dev, stop, athr, autosend_thr, mline, dcmd>>
    /\ ThreadRest

\* A,1: "if not (self._autosend_thr and self._autosend_thr.is_alive()):
\* self._start_autosend()"
cmd_start ==
    /\ dpc = "start"
    /\ IF thread_alive THEN UNCHANGED <<athr, autosend_thr>> ELSE start_autosend
    /\ dpc' = "idle"
    /\ UNCHANGED <<dev, lock, stop, mline, quiet, dcmd, wpos, wire>>
    /\ ThreadRest

\* an autosend thread: "while not self._stop.is_set()"
auto_test(t) ==
    /\ athr[t] = "test"
    /\ athr' = [athr EXCEPT ![t] = IF stop THEN "exit" ELSE "convert"]
    /\ UNCHANGED <<dev, lock, stop, autosend_thr, mline, quiet, dpc, dcmd, wpos, wire>>
    /\ ThreadRest

\* _measurement_strings: "p_unit = convert_from_bar(p_bar, self.dev.unit)"
auto_convert(t) ==
    /\ athr[t] = "convert"
    /\ mline' = [mline EXCEPT ![t] = [conv |-> dev.unit, label |-> ""]]
    /\ athr' = [athr EXCEPT ![t] = "label"]
    /\ UNCHANGED <<dev, lock, stop, autosend_thr, quiet, dpc, dcmd, wpos, wire>>
    /\ ThreadRest

\* _measurement_strings: g = f"{p_unit:.6f},{self.dev.unit}"
auto_label(t) ==
    /\ athr[t] = "label"
    /\ mline' = [mline EXCEPT ![t].label = dev.unit]
    /\ athr' = [athr EXCEPT ![t] = "send"]
    /\ UNCHANGED <<dev, lock, stop, autosend_thr, quiet, dpc, dcmd, wpos, wire>>
    /\ ThreadRest

\* _send_measurement: _send_line takes the lock
auto_acquire(t) ==
    /\ athr[t] = "send"
    /\ acquire(t)
    /\ athr' = [athr EXCEPT ![t] = "write"]
    /\ UNCHANGED <<dev, stop, autosend_thr, mline, quiet, dpc, dcmd, wpos, wire>>
    /\ ThreadRest

\* the measurement line is written; then the thread sleeps
auto_write(t) ==
    /\ athr[t] = "write"
    /\ write_byte(t)
    /\ athr' = [athr EXCEPT ![t] = IF wpos[t] + 1 < LineBytes THEN "write" ELSE "sleep"]
    /\ mline' = [mline EXCEPT ![t] = IF wpos[t] + 1 < LineBytes THEN mline[t] ELSE NoLine]
    /\ UNCHANGED <<dev, stop, autosend_thr, quiet, dpc, dcmd>>
    /\ ThreadRest

\* time.sleep returns
auto_wake(t) ==
    /\ athr[t] = "sleep"
    /\ athr' = [athr EXCEPT ![t] = "test"]
    /\ UNCHANGED <<dev, lock, stop, autosend_thr, mline, quiet, dpc, dcmd, wpos, wire>>
    /\ ThreadRest

\* run() returns: the thread is no longer alive
auto_exit(t) ==
    /\ athr[t] = "exit"
    /\ athr' = [athr EXCEPT ![t] = "dead"]
    /\ UNCHANGED <<dev, lock, stop, autosend_thr, mline, quiet, dpc, dcmd, wpos, wire>>
    /\ ThreadRest

ThreadCommands ==
    {Command("A", "", 0), Command("A", "", 1), Command("*G", "", 0),
     Command("U", "Pa", 0), Command("U", "bar", 0)}

ThreadNext ==
    \/ \E c \in ThreadCommands : cmd_handle(c)
    \/ cmd_acquire
    \/ cmd_write
    \/ cmd_start
    \/ \E t \in Threads : auto_test(t)
    \/ \E t \in Threads : auto_convert(t)
    \/ \E t \in Threads : auto_label(t)
    \/ \E t \in Threads : auto_acquire(t)
    \/ \E t \in Threads : auto_write(t)
    \/ \E t \in Threads : auto_wake(t)
    \/ \E t \in Threads : auto_exit(t)

ThreadSpec == ThreadInit /\ [][ThreadNext]_vars

\* fair scheduling: a thread that can run does run, and a thread waiting for
\* the lock gets it when it is free again and again; commands come as they may
ThreadFairSpec ==
    /\ ThreadSpec
    /\ WF_vars(cmd_write) /\ WF_vars(cmd_start) /\ SF_vars(cmd_acquire)
    /\ \A t \in Threads :
            /\ WF_vars(auto_test(t)) /\ WF_vars(auto_convert(t)) /\ WF_vars(auto_label(t))
            /\ WF_vars(auto_write(t)) /\ WF_vars(auto_wake(t))
            /\ WF_vars(auto_exit(t)) /\ SF_vars(auto_acquire(t))

\* ---------------------------------------------------------------- csv_writer
MaxRows == 3

\* the header line of a file
HeaderLine == [d |-> 0, k |-> 0]

\* A mutant of new_file: every file opened is taken for a new one.
new_file_Always(d) == TRUE

\* _open_for_today: "not path.exists() or path.stat().st_size == 0"
new_file(d) == files[d] = <<>>

\* CSVRotateConfig.flush_every
flush_every == 2

RECURSIVE SumTo(_, _)
SumTo(f, n) == IF n = 0 THEN 0 ELSE f[n] + SumTo(f, n - 1)
\* the number of open handles in h
Open(h) == SumTo(h, MaxDays)

\* the writer as it is: what _open_for_today and _maybe_rotate start from
Writer ==
    [date |-> wdate, fh |-> fh, files |-> files, handles |-> handles, peak |-> Open(handles),
     since |-> since_flush, unflushed |-> unflushed, opened |-> FALSE]

\* A mutant of open_for_today: the new file is opened before the old handle
\* is closed.
open_for_today_OpenFirst ==
    IF wdate = today /\ fh # 0 THEN Writer
    ELSE LET both == [handles EXCEPT ![today] = @ + 1]
         IN  [date |-> today, fh |-> today,
              files |-> IF new_file(today) THEN [files EXCEPT ![today] = Append(@, HeaderLine)]
                        ELSE files,
              handles |-> IF fh # 0 THEN [both EXCEPT ![fh] = @ - 1] ELSE both,
              peak |-> Open(both), since |-> 0, unflushed |-> 0, opened |-> TRUE]

\* CSVRotatingWriter._open_for_today: the handle it has is flushed and closed,
\* then the file of today is opened, with a header if it is new
open_for_today ==
    IF wdate = today /\ fh # 0 THEN Writer
    ELSE LET closed == IF fh # 0 THEN [handles EXCEPT ![fh] = @ - 1] ELSE handles
             anew == [closed EXCEPT ![today] = @ + 1]
         IN  [date |-> today, fh |-> today,
              files |-> IF new_file(today) THEN [files EXCEPT ![today] = Append(@, HeaderLine)]
                        ELSE files,
              handles |-> anew,
              peak |-> IF Open(anew) > Open(handles) THEN Open(anew) ELSE Open(handles),
              since |-> 0, unflushed |-> 0, opened |-> TRUE]

\* CSVRotatingWriter._maybe_rotate
maybe_rotate == IF wdate # today THEN open_for_today ELSE Writer

\* A mutant of flush_due: the flush comes one row late.
flush_due_Late(n) == n > flush_every

\* write: "if self._rows_written_since_flush >= self.cfg.flush_every"
flush_due(n) == n >= flush_every

CsvRest == UNCHANGED <<clientVars, wireVars, simVars, with_raw, serveVars, threadVars, errVars, stemVars>>
                /\ UNCHANGED <<lpc, count, tp0, now, disable_halt, row, cyc, histVars>>

\* CSVRotatingWriter.__enter__
csv_enter ==
    /\ LET w == open_for_today
       IN  /\ wdate' = w.date
           /\ fh' = w.fh
           /\ files' = w.files
           /\ handles' = w.handles
           /\ peak' = w.peak
           /\ since_flush' = w.since
           /\ unflushed' = w.unflushed
           /\ wlast' = [op |-> "enter", opened |-> w.opened]
    /\ UNCHANGED <<today, nrows>>
    /\ CsvRest

\* CSVRotatingWriter.write: the row says the day it was written on and its number
csv_write ==
    /\ nrows < MaxRows
    /\ LET w == maybe_rotate
       IN  /\ wdate' = w.date
           /\ fh' = w.fh
           /\ files' = [w.files EXCEPT ![w.fh] = Append(@, [d |-> today, k |-> nrows + 1])]
           /\ handles' = w.handles
           /\ peak' = w.peak
           /\ since_flush' = IF flush_due(w.since + 1) THEN 0 ELSE w.since + 1
           /\ unflushed' = IF flush_due(w.since + 1) THEN 0 ELSE w.unflushed + 1
           /\ wlast' = [op |-> "write", opened |-> w.opened]
    /\ nrows' = nrows + 1
    /\ UNCHANGED today
    /\ CsvRest

\* CSVRotatingWriter.close: _flush, then the handle is closed and forgotten
csv_close ==
    /\ fh' = 0
    /\ wdate' = IF fh # 0 THEN 0 ELSE wdate
    /\ handles' = IF fh # 0 THEN [handles EXCEPT ![fh] = @ - 1] ELSE handles
    /\ peak' = Open(handles)
    /\ since_flush' = 0
    /\ unflushed' = 0
    /\ wlast' = [op |-> "close", opened |-> FALSE]
    /\ UNCHANGED <<today, files, nrows>>
    /\ CsvRest

\* the local date changes: to the next day, or back to an earlier one
date_change(d) ==
    /\ d # today
    /\ today' = d
    /\ UNCHANGED <<wdate, fh, files, nrows, handles, peak, since_flush, unflushed, wlast>>
    /\ CsvRest

CsvInit ==
    /\ ClientInit
    /\ PeerInit({"sim"}, {DefaultDeviceCfg})
    /\ lpc = "off"
    /\ with_raw = FALSE
    /\ LoggerIdle
    /\ ServeIdle
    /\ ThreadIdle
    /\ today \in Days
    /\ wdate = 0
    /\ fh = 0
    /\ files = [d \in Days |-> <<>>]
    /\ nrows = 0
    /\ handles = [d \in Days |-> 0]
    /\ peak = 0
    /\ since_flush = 0
    /\ unflushed = 0
    /\ wlast = [op |-> "", opened |-> FALSE]
    /\ ErrIdle
    /\ StemIdle

CsvNext ==
    \/ csv_enter
    \/ csv_write
    \/ csv_close
    \/ \E d \in Days : date_change(d)

CsvSpec == CsvInit /\ [][CsvNext]_vars

\* ---------------------------------------------------------------- logfile.ErrorLog
MaxLines == 2

\* A mutant of is_duplicate: no path is taken for a duplicate.
is_duplicate_Never(p) == FALSE

\* ErrorLog.__init__: "if full_path in ErrorLog._log_list"
is_duplicate(p) == p \in log_list

ErrRest == UNCHANGED <<clientVars, wireVars, simVars, with_raw, serveVars, threadVars, csvVars, stemVars>>
                /\ UNCHANGED <<lpc, count, tp0, now, disable_halt, row, cyc, histVars>>

\* ErrorLog(dir_path, ...) is called for path p, object o being the new one;
\* creatable: open(full_path, "w") succeeds
ErrorLog_init(o, p, creatable) ==
    /\ ~elogs[o].alive
    /\ elast' = [op |-> "init", raised |-> is_duplicate(p), path |-> p, before |-> efiles]
    /\ IF is_duplicate(p)
       THEN UNCHANGED <<log_list, elogs, efiles>>
       ELSE IF ~creatable
            THEN /\ elogs' = [elogs EXCEPT ![o] = [alive |-> TRUE, full_path |-> "",
                                                   is_header |-> FALSE]]
                 /\ UNCHANGED <<log_list, efiles>>
            ELSE /\ efiles' = [efiles EXCEPT ![p] = <<>>]
                 /\ log_list' = log_list \cup {p}
                 /\ elogs' = [elogs EXCEPT ![o] = [alive |-> TRUE, full_path |-> p,
                                                   is_header |-> FALSE]]
    /\ ErrRest

\* ErrorLog.write on object o: the header before its first line
ErrorLog_write(o) ==
    /\ elogs[o].alive
    /\ elogs[o].full_path # ""
    /\ Len(efiles[elogs[o].full_path]) < MaxLines
    /\ efiles' = [efiles EXCEPT ![elogs[o].full_path] =
                    IF elogs[o].is_header THEN Append(@, [by |-> o, header |-> FALSE])
                    ELSE @ \o <<[by |-> o, header |-> TRUE], [by |-> o, header |-> FALSE]>>]
    /\ elogs' = [elogs EXCEPT ![o].is_header = TRUE]
    /\ elast' = [op |-> "write", raised |-> FALSE, path |-> elogs[o].full_path,
                 before |-> efiles]
    /\ UNCHANGED log_list
    /\ ErrRest

\* ErrorLog.__del__: object o goes
ErrorLog_del(o) ==
    /\ elogs[o].alive
    /\ log_list' = IF elogs[o].full_path # "" THEN log_list \ {elogs[o].full_path} ELSE log_list
    /\ elogs' = [elogs EXCEPT ![o] = [alive |-> FALSE, full_path |-> "", is_header |-> FALSE]]
    /\ elast' = [op |-> "del", raised |-> FALSE, path |-> elogs[o].full_path, before |-> efiles]
    /\ UNCHANGED efiles
    /\ ErrRest

ErrInit ==
    /\ ClientInit
    /\ PeerInit({"sim"}, {DefaultDeviceCfg})
    /\ lpc = "off"
    /\ with_raw = FALSE
    /\ LoggerIdle
    /\ ServeIdle
    /\ ThreadIdle
    /\ CsvIdle
    /\ ErrIdle
    /\ StemIdle

ErrNext ==
    \/ \E o \in 1..MaxObjs, p \in Paths, c \in BOOLEAN : ErrorLog_init(o, p, c)
    \/ \E o \in 1..MaxObjs : ErrorLog_write(o)
    \/ \E o \in 1..MaxObjs : ErrorLog_del(o)

ErrSpec == ErrInit /\ [][ErrNext]_vars

\* ---------------------------------------------------------------- datalogger-stem
MaxStemRows == 3

StemRest == UNCHANGED <<clientVars, wireVars, simVars, with_raw, serveVars, threadVars, csvVars,
                        errVars>>
                /\ UNCHANGED <<lpc, count, tp0, now, disable_halt, row, cyc, histVars>>

StemRunning == {"sync", "top", "cycle", "sleep"}

\* A mutant of stem_sig_handler: the handler ends the process unless
\* disable_halt is set.
stem_sig_handler_Exits ==
    /\ spc \in StemRunning
    /\ halt_requested' = TRUE
    /\ halt_at' = IF halt_requested THEN halt_at ELSE [at |-> spc, rows |-> rows]
    /\ IF stem_disable_halt THEN UNCHANGED <<spc, stem_end>>
       ELSE /\ spc' = "stopped"
            /\ stem_end' = [at |-> spc, reported |-> -1, code |-> 0]
    /\ UNCHANGED <<stem_disable_halt, rows>>
    /\ StemRest

\* _sig_handler: SIGINT or SIGTERM arrives while run_logger runs
stem_sig_handler ==
    /\ spc \in StemRunning
    /\ halt_requested' = TRUE
    /\ halt_at' = IF halt_requested THEN halt_at ELSE [at |-> spc, rows |-> rows]
    /\ UNCHANGED <<spc, stem_disable_halt, rows, stem_end>>
    /\ StemRest

\* "while get_sec_fractions(4) != 0: pass" ends; the logs are made and the
\* header is written
stem_synced ==
    /\ spc = "sync"
    /\ spc' = "top"
    /\ UNCHANGED <<halt_requested, halt_at, stem_disable_halt, rows, stem_end>>
    /\ StemRest

\* the top of the loop: break on a halt request, or a cycle begins
stem_top ==
    /\ spc = "top"
    /\ IF halt_requested /\ ~stem_disable_halt
       THEN /\ spc' = "stopped"
            /\ stem_end' = [at |-> "top", reported |-> rows, code |-> 0]
            /\ UNCHANGED stem_disable_halt
       ELSE /\ rows < MaxStemRows
            /\ spc' = "cycle"
            /\ stem_disable_halt' = TRUE
            /\ UNCHANGED stem_end
    /\ UNCHANGED <<halt_requested, halt_at, rows>>
    /\ StemRest

\* the cycle's body: the row is written, or read_once or data_log.write
\* raises and the error is logged; then finally
stem_cycle(ok) ==
    /\ spc = "cycle"
    /\ rows' = IF ok THEN rows + 1 ELSE rows
    /\ stem_disable_halt' = FALSE
    /\ spc' = "sleep"
    /\ UNCHANGED <<halt_requested, halt_at, stem_end>>
    /\ StemRest

\* err_log.write raises inside the cycle's except: finally, then the outer
\* except returns 2
stem_fatal ==
    /\ spc = "cycle"
    /\ stem_disable_halt' = FALSE
    /\ spc' = "fatal"
    /\ stem_end' = [at |-> "cycle", reported |-> -1, code |-> 2]
    /\ UNCHANGED <<halt_requested, halt_at, rows>>
    /\ StemRest

\* sleep(delay) returns, or there was no delay
stem_slept ==
    /\ spc = "sleep"
    /\ spc' = "top"
    /\ UNCHANGED <<halt_requested, halt_at, stem_disable_halt, rows, stem_end>>
    /\ StemRest

StemInit ==
    /\ ClientInit
    /\ PeerInit({"sim"}, {DefaultDeviceCfg})
    /\ lpc = "off"
    /\ with_raw = FALSE
    /\ LoggerIdle
    /\ ServeIdle
    /\ ThreadIdle
    /\ CsvIdle
    /\ ErrIdle
    /\ StemIdle

StemNext ==
    \/ stem_sig_handler
    \/ stem_synced
    \/ stem_top
    \/ \E ok \in BOOLEAN : stem_cycle(ok)
    \/ stem_fatal
    \/ stem_slept

StemSpec == StemInit /\ [][StemNext]_vars

\* ---------------------------------------------------------------- properties
ClientStep ==
    \/ txrx_once_closed
    \/ txrx_once_write
    \/ readline_data
    \/ readline_timeout
    \/ read_until_data
    \/ read_until_timeout

WireOps ==
    {"identify", "set_unit", "set_autosend", "set_direct_mode", "set_address",
     "read_pressure", "read_raw"}

\* C1: on an open port where every read times out, a call with retries = r
\* never writes its command more than r+1 times, is never stuck while in
\* progress, and ends failing with DPS8000Error naming the timeout, after
\* exactly r+1 writes.
C1_RetryBound ==
    (peer = "silent" /\ ser_open /\ op \in WireOps) =>
        /\ writes <= cfg.retries + 1
        /\ attempt <= cfg.retries
        /\ pc # "idle" => ENABLED ClientStep
        /\ Done => /\ result.status = "DPS8000Error"
                   /\ result.cause = "Timeout"
                   /\ result.writes = cfg.retries + 1

C1_Witness ==
    /\ peer = "silent"
    /\ ser_open
    /\ op = "read_pressure"
    /\ Done
    /\ cfg.retries = MaxRetries
    /\ result.writes = MaxRetries + 1

\* C2: a read_pressure whose reply cannot be parsed as a number was re-sent
\* retries more times before it failed, and failed with the client's typed
\* error (DPS8000Error).
C2_MalformedReplyRetried ==
    (op = "read_pressure" /\ Done /\ accepted # <<>> /\ ~ParseOk(accepted)) =>
        /\ result.status = "DPS8000Error"
        /\ result.writes = cfg.retries + 1

EchoOf(o, a) ==
    CASE o = "set_unit" -> [k |-> "U", u |-> a.u, n |-> 0]
      [] o = "set_autosend" -> [k |-> "A", u |-> "", n |-> a.n]
      [] OTHER -> [k |-> "N", u |-> "", n |-> a.n]
IsEcho(txt, o, a) ==
    /\ Len(txt) = 1
    /\ [k |-> txt[1].k, u |-> txt[1].u, n |-> txt[1].n] = EchoOf(o, a)
C5_CacheFollowsEcho ==
    (op \in {"set_unit", "set_autosend", "set_direct_mode", "set_address"}
     /\ pc = "idle" /\ cfg # cfg0) => IsEcho(accepted, op, arg)

\* the client is blocked in a read, waiting for the reply to the command it wrote
ReplyWait == pc \in {"readline", "read_until"}

\* C4: every write of a command happens while no reply-wait is going on and
\* starts one, so writes and reply-waits alternate: across the retries of
\* one call and across the *G and *Z of read_sample_with_raw.
C4_WritesAlternateWithWaits ==
    [][writes' = writes + 1 => (~ReplyWait /\ ReplyWait')]_vars

\* the *Z of read_sample_with_raw written again after a first attempt failed
C4_Witness == lpc = "raw" /\ ReplyWait /\ attempt > 0 /\ writes > 1

\* C6: read_pressure returns a value only for a single measurement line
\* whose unit is the configured one, and fails with the unit-mismatch error
\* for one whose unit is another; the logger then writes a NaN row and goes
\* on; every row with a pressure has it in the unit of its unit column.
IsMeasurement(txt) == Len(txt) = 1 /\ txt[1].k = "G" /\ txt[1].pfx = <<>>
C7_FaultYieldsNaNSample ==
    (cyc.done /\ cyc.fault # "" /\ ~cyc.sink) => (cyc.row /\ ~cyc.err)

C9_FaultNeverTerminates == lpc # "crashed"

\* the steps that take the logger on, the peer's included
LoggerProgress ==
    \/ opened
    \/ identified
    \/ next_cycle
    \/ read_sample
    \/ read_sample_with_raw
    \/ WriteRow
    \/ LogError
    \/ ClientStep
    \/ serve

\* the states the bounds of the model cut short: the next tick lies after
\* MaxTime, or the next write would queue more than MaxPending commands
AtModelBound ==
    \/ lpc = "wait" /\ now + wait_time > MaxTime
    \/ pc = "tx" /\ peer # "silent" /\ Len(toSim) >= MaxPending

\* C9 as amended: the logger terminates on a device fault only when open()
\* fails, before the first cycle; once open() has returned, whatever the
\* device does, the logger is never terminated by it and always has a next
\* step to take (within the bounds of the model).
C9_RunsOnAfterOpen ==
    /\ lpc = "crashed" => (op = "open" /\ ~cyc.done)
    /\ (lpc \in Running \ {"opening"} /\ ~AtModelBound) =>
            ENABLED LoggerProgress

\* a cycle is running after one whose device read failed
C9_Witness == lpc = "read" /\ cyc.done /\ cyc.fault # "" /\ pc = "readline"

\* C10: the first command after a cycle whose device read failed is written
\* no earlier than the next scheduled tick, tp0 + (k+1) * Interval.
C10_NextReadAtNextTick ==
    (lpc = "read" /\ cyc.done /\ cyc.fault # "" /\ ~cyc.sink) =>
        now >= tp0 + (cyc.k + 1) * Interval

\* C11: a cycle in which data_log.write raised ends the run: the "fatal:"
\* line is in the error log and the exit code is not 0.
C11_SinkFailureIsFatal ==
    (cyc.sink /\ lpc \notin Busy) =>
        (lpc = "fatal" /\ ended.how = "fatal" /\ ended.logged /\ ended.code # 0)

\* C12: disable_halt is set from the top of the loop body, before the
\* device read is issued, until the row is written or the error logged,
\* and is clear everywhere else, whichever way the cycle ended.
C12_BusyFlagBracketsCycle ==
    /\ lpc \in Busy => disable_halt
    /\ lpc \notin Busy => ~disable_halt

\* a cycle left through "except Exception", the flag clear again
C12_Witness == lpc = "wait" /\ cyc.done /\ cyc.err /\ cyc.sink /\ ~disable_halt

\* C13 as claimed: a stop never ends the process while a row is being
\* written or a reply is being awaited.
C13_StopNeverAbandonsCommand ==
    ended.how = "stop" => (~ended.inflight /\ ~ended.partial)

\* C13 as amended: a stop never ends the process inside a measurement cycle,
\* so never while a row is being written or a cycle's command awaits its
\* reply; a reply being awaited when the process stops is one of open() or
\* identify().
C13_StopOnlyOutsideCycle ==
    ended.how = "stop" =>
        /\ ended.at \notin Busy
        /\ ~ended.partial
        /\ ended.inflight => ended.at \in {"opening", "ident"}

C13_Witness == ended.how = "stop" /\ ended.at = "wait" /\ cyc.done /\ count > 0

C15_IdleStopReportsTotal ==
    ended.how = "stop" => (~ser_open /\ ended.total /\ ended.code = 0)

\* the step from the wait into the next cycle
CycleStarts == lpc = "wait" /\ lpc' = "read"

C17_OverrunKeepsGrid ==
    [][CycleStarts =>
        /\ tp0' = tp0
        /\ count' = count
        /\ now > tp0 + count * Interval => now' = now
        /\ now <= tp0 + count * Interval => now' = tp0 + count * Interval]_vars

\* a cycle begins late, right after a cycle that wrote its row too late
C17_Witness ==
    /\ lpc = "read"
    /\ pc = "tx"
    /\ writes = 0
    /\ cyc.done
    /\ cyc.fault = ""
    /\ ~cyc.sink
    /\ count = 1
    /\ now > tp0 + count * Interval

\* C18: a row appended to the data log has as many separator-delimited
\* fields as the header.
C18_RowMatchesHeader ==
    (lpc = "wait" /\ cyc.done /\ ~cyc.sink /\ ~cyc.err) => Fields(row) = Len(header)

\* a command line without its address prefix
Bare(m) == [m EXCEPT !.pfx = <<>>]

\* C19: a simulator with a non-zero address a sends nothing and changes
\* nothing on a line prefixed with another address, and on a line prefixed
\* "a:" does what it does on the bare command: it executes it and answers.
C19_AddressFilter ==
    (hc.n > 0 /\ hc.before.addr # 0 /\ hc.line.pfx # <<>>) =>
        IF hc.line.pfx[1] # hc.before.addr
        THEN hc.out = <<>> /\ dev = hc.before
        ELSE /\ hc.out = handle_command(hc.before, Bare(hc.line)).out
             /\ dev = handle_command(hc.before, Bare(hc.line)).dev
             /\ Len(hc.out) = 1

\* a unit command behind another device's prefix has been dropped
C19_Witness ==
    /\ hc.n > 0
    /\ hc.before.addr = 5
    /\ hc.line.pfx = <<3>>
    /\ hc.line.c = "U"
    /\ hc.line.u = "Pa"
    /\ hc.out = <<>>

\* C20 as claimed: with a non-zero address and address echo, every reply
\* line begins with the address.
C20_EveryReplyPrefixed ==
    (hc.n > 0 /\ hc.before.addr # 0 /\ hc.before.echo_address_in_reply) =>
        \A i \in 1..Len(hc.out) : hc.out[i].pfx = <<hc.before.addr>>

\* C21: in every configuration (direct, network without and with address
\* echo) the line the simulator writes for *G is decoded by read_pressure
\* into the unit (and value) the simulator encoded.
C21_MeasurementRoundTrip ==
    (/\ op = "read_pressure"
     /\ Done
     /\ Len(accepted) = 1
     /\ accepted[1].k = "G"
     /\ accepted[1].cur
     /\ cfg.unit # "" => Lower(accepted[1].u) = Lower(cfg.unit)) =>
        (result.status = "ok" /\ result.unit = accepted[1].u)

\* C22: a command line the simulator accepts (its address filter lets it
\* through) is answered with exactly one line, and that line is the bare ERR
\* when the line is none of the recognized commands.
C22_OneReplyPerCommand ==
    (hc.n > 0 /\ ~addressed_elsewhere(hc.before, hc.line)) =>
        /\ Len(hc.out) = 1
        /\ hc.line.c \notin RecognizedCommands =>
                (hc.out[1].k = "ERR" /\ hc.out[1].pfx = <<>> /\ dev = hc.before)

\* an unknown command addressed to the simulator has been answered ERR
C22_Witness ==
    /\ hc.n > 0
    /\ hc.before.addr = 5
    /\ hc.line.pfx = <<5>>
    /\ hc.line.c = "X"
    /\ Len(hc.out) = 1
    /\ hc.out[1].k = "ERR"

\* the non-empty segments of b that a CR or an LF ends
RECURSIVE Segments(_, _)
Segments(b, cur) ==
    IF b = <<>> THEN <<>>
    ELSE IF Head(b) \in {"CR", "LF"}
         THEN (IF cur # <<>> THEN <<cur>> ELSE <<>>) \o Segments(Tail(b), <<>>)
         ELSE Segments(Tail(b), Append(cur, Head(b)))

\* C23: whatever the chunks serve reads the stream in, the lines it gives to
\* the handler are, in order, the non-empty segments of the bytes read so
\* far that a CR or an LF ends.
C23_LinesAreSegments ==
    handled = Segments(SubSeq(stream, 1, Len(stream) - Len(rx)), <<>>)

\* C24: each line is on the wire as one contiguous run of bytes, whichever
\* thread wrote it, and at most one thread is inside the port's write.
C24_LinesNeverInterleave ==
    /\ \A j \in 1..(Len(wire) - 1) :
            wire[j].i < LineBytes => wire[j + 1] = [by |-> wire[j].by, i |-> wire[j].i + 1]
    /\ \A j \in 2..Len(wire) :
            wire[j].i > 1 => wire[j - 1] = [by |-> wire[j].by, i |-> wire[j].i - 1]
    /\ Cardinality({w \in {"cmd"} \cup Threads :
                        IF w = "cmd" THEN dpc = "write" ELSE athr[w] = "write"}) <= 1

\* the autosend thread waits for the lock while the reply to a command is
\* half written, after a whole autosend line
C24_Witness ==
    /\ athr["t1"] = "send"
    /\ dpc = "write"
    /\ lock = "cmd"
    /\ Len(wire) >= 3
    /\ wire[Len(wire)] = [by |-> "cmd", i |-> 1]
    /\ wire[Len(wire) - 1] = [by |-> "t1", i |-> LineBytes]

\* C25: while autosend is enabled the autosend thread keeps writing lines:
\* from any moment at which autosend is on, a measurement line is written
\* later (or autosend is turned off by A,0).
C25_AutosendKeepsSending ==
    [](dev.autosend => <>((\E t \in Threads : athr[t] = "write") \/ ~dev.autosend))

\* the line handle_command was given reached its U branch
HandledU ==
    /\ hc.n > 0
    /\ hc.line.c = "U"
    /\ ~addressed_elsewhere(hc.before, hc.line)
    /\ hc.before.addr = 0 => hc.line.pfx = <<>>

\* C26: the simulator's unit is always one of bar, Pa, kPa, mbar, psi: U
\* with an allowed unit sets it and echoes the command, U with anything
\* else answers ERR and changes nothing.
C26_UnitStaysAllowed ==
    /\ dev.unit \in {"bar", "Pa", "kPa", "mbar", "psi"}
    /\ HandledU =>
        IF hc.line.u \in UNITS_ALLOWED
        THEN /\ dev = [hc.before EXCEPT !.unit = hc.line.u]
             /\ hc.out = <<Reply("U", hc.line.u, 0, <<>>, TRUE)>>
        ELSE /\ dev = hc.before
             /\ hc.out = <<Reply("ERR", "", 0, <<>>, TRUE)>>

\* U,atm has been refused by a simulator whose unit had been set to Pa
C26_Witness ==
    /\ HandledU
    /\ hc.line.u = "atm"
    /\ hc.before.unit = "Pa"
    /\ dev.unit = "Pa"
    /\ hc.out = <<Reply("ERR", "", 0, <<>>, TRUE)>>

\* C27: the simulator's address stays within 0..31, whatever the argument
\* of N.
C27_AddressStaysInRange == dev.addr \in 0..MaxAddress

\* the last line handled was a step command that succeeded
Stepped(key) ==
    /\ hc.n > 0
    /\ hc.line.c = "S"
    /\ hc.line.u = key
    /\ Len(hc.out) = 1
    /\ hc.out[1].k = "S_OK"

\* C28: in settle mode S,P2,<v> stores the signal's value at the instant of
\* the step as p1, then the new target as p2, and re-anchors t0 to that
\* instant: the value at the instant is the same before and after the step.
C28_StepIsContinuous ==
    (Stepped("P2") /\ hc.before.sig.mode = "settle") =>
        /\ dev.sig.p1 = value(hc.before.sig, hc.before.clock)
        /\ dev.sig.p2 = hc.line.n * Bar
        /\ dev.sig.t0 = hc.before.clock
        /\ value(dev.sig, hc.before.clock) = value(hc.before.sig, hc.before.clock)

\* a step to 2 bar taken while the signal was on its way from 1.5 to 1 bar
C28_Witness ==
    /\ Stepped("P2")
    /\ hc.before.sig.mode = "settle"
    /\ hc.before.clock > hc.before.sig.t0
    /\ hc.before.sig.p1 # hc.before.sig.p2
    /\ value(hc.before.sig, hc.before.clock) \notin {hc.before.sig.p1, hc.before.sig.p2}
    /\ dev.sig.p2 = 2 * Bar

\* C29: a step command that succeeds (S,P2, S,TAU or S,MODE) sets the
\* signal's t0 to the instant at which it is handled.
C29_StepReanchors ==
    (Stepped("P2") \/ Stepped("TAU") \/ Stepped("MODE")) => dev.sig.t0 = hc.before.clock

\* C30: whatever the writes, closes and date changes, every file has exactly
\* one header line, its first line, and every row is in the file of the day
\* it was written on.
C30_OneHeaderPerFile ==
    \A d \in Days :
        files[d] # <<>> =>
            /\ files[d][1] = HeaderLine
            /\ \A i \in 2..Len(files[d]) : files[d][i] # HeaderLine /\ files[d][i].d = d

\* the date went from day 1 to day 2 and back to day 1, a row was written
\* on each, and the writer is closed
C30_Witness ==
    /\ files[1] = <<HeaderLine, [d |-> 1, k |-> 1], [d |-> 1, k |-> 3]>>
    /\ files[2] = <<HeaderLine, [d |-> 2, k |-> 2]>>
    /\ wdate = 0
    /\ fh = 0

\* C31: the writer holds at most one open handle at any time, also during a
\* rotation (the old handle is closed before the new file is opened), and
\* none after close().
C31_OneOpenHandle ==
    /\ Open(handles) <= 1
    /\ peak <= 1
    /\ \A d \in Days : handles[d] = (IF fh = d THEN 1 ELSE 0)
    /\ wlast.op = "close" => Open(handles) = 0

\* a write has rotated from the open file of one day to the file of another
C31_Witness ==
    /\ wlast = [op |-> "write", opened |-> TRUE]
    /\ \E d \in Days : d # fh /\ Len(files[d]) > 1 /\ files[d][Len(files[d])].k = nrows - 1
    /\ fh = today
    /\ handles[today] = 1

\* C32: with flush_every = N the rows written since the last flush are
\* 0..N-1 after every write, the one row just written after a write that
\* rotated, and none after a rotation by __enter__ and after close(); the
\* counter is the number of rows really left unflushed.
C32_FlushEveryN ==
    /\ since_flush \in 0..(flush_every - 1)
    /\ unflushed = since_flush
    /\ (wlast.op = "write" /\ wlast.opened) => since_flush = (IF flush_due(1) THEN 0 ELSE 1)
    /\ (wlast.op = "enter" /\ wlast.opened) => since_flush = 0
    /\ wlast.op = "close" => since_flush = 0

\* the N-th row since the last flush has just been written and flushed
C32_Witness ==
    /\ wlast = [op |-> "write", opened |-> FALSE]
    /\ since_flush = 0
    /\ nrows >= flush_every
    /\ fh # 0

\* the live ErrorLog objects that own path p
Owners(p) == {o \in 1..MaxObjs : elogs[o].alive /\ elogs[o].full_path = p}

\* C33: at most one live ErrorLog owns a path, and making an ErrorLog for a
\* path that a live one owns raises and leaves the file as it was.
C33_OneErrorLogPerPath ==
    /\ \A p \in Paths : Cardinality(Owners(p)) <= 1
    /\ \A p \in Paths : (Owners(p) # {}) <=> (p \in log_list)
    /\ (elast.op = "init" /\ elast.raised) =>
            /\ efiles = elast.before
            /\ Owners(elast.path) # {}

\* a second ErrorLog for the path of a live one, whose file holds lines, has
\* been refused
C33_Witness ==
    /\ elast.op = "init"
    /\ elast.raised
    /\ Len(efiles[elast.path]) = MaxLines
    /\ Cardinality(Owners(elast.path)) = 1

\* C34: a step command that fails changes nothing: S,MODE with a word that
\* is no mode answers S,ERR,BAD_MODE, S,P2 and S,TAU with a value that is no
\* number and S without a value answer S,ERR, and the signal (mode, p1, p2,
\* tau, t0) stays as it was.
C34_FailedStepChangesNothing ==
    (hc.n > 0 /\ hc.line.c = "S" /\ hc.line.n = 0 /\ hc.line.u \in {"P2", "TAU", "MODE", ""}) =>
        /\ dev.sig = hc.before.sig
        /\ hc.out = <<Reply("S_ERR", IF hc.line.u = "MODE" THEN "BAD_MODE" ELSE "", 0, <<>>, TRUE)>>

\* S,MODE with a bad name has been refused some time after the last anchor
C34_Witness ==
    /\ hc.n > 0
    /\ hc.line.c = "S"
    /\ hc.line.u = "MODE"
    /\ hc.line.n = 0
    /\ hc.before.clock > hc.before.sig.t0
    /\ hc.before.sig.p2 = 2 * Bar
    /\ dev.sig = hc.before.sig

\* C35: in datalogger-stem a stop request only sets halt_requested, at any
\* point of the run; the loop leaves at its top and nowhere else on a
\* request, at the first top it comes to, the number of rows is reported and
\* 0 is returned.
C35_StopAtLoopTop ==
    [][/\ halt_requested' # halt_requested =>
            (halt_requested' /\ spc' = spc /\ rows' = rows /\ stem_end' = stem_end
                /\ stem_disable_halt' = stem_disable_halt)
       /\ (spc = "top" /\ halt_requested /\ spc' # spc) => spc' = "stopped"
       /\ spc' = "stopped" =>
            (spc \in {"top", "stopped"} /\ halt_requested
                /\ stem_end' = [at |-> "top", reported |-> rows, code |-> 0])]_vars

\* a request that came during a cycle has stopped the loop at its next top,
\* after that cycle's row
C35_Witness ==
    /\ spc = "stopped"
    /\ halt_at = [at |-> "cycle", rows |-> 0]
    /\ stem_end = [at |-> "top", reported |-> 1, code |-> 0]
    /\ rows = 1

\* C36: once the echo of an A,0 is on the wire, no autosend thread writes a
\* measurement line until a later A,1 is handled.
C36_QuietAfterA0 ==
    quiet => \A t \in Threads : athr[t] # "write"

\* an autosend thread is writing its line after the echo of A,0
C36_LineAfterA0Echo ==
    ~(quiet /\ stop /\ ~dev.autosend /\ dpc = "idle" /\ \E t \in Threads : athr[t] = "write")

\* C37: at most one autosend thread is alive at any time.
C37_OneAutosendThread ==
    Cardinality({t \in Threads : is_alive(t)}) <= 1

\* A,1 after A,0 made a second thread once the first had ended
C37_Witness ==
    /\ athr["t1"] = "dead"
    /\ athr["t2"] = "write"
    /\ autosend_thr = "t2"
    /\ dev.autosend

\* C38: a measurement line carries a value converted with the unit of its
\* label, also when U is handled while the autosend thread builds the line.
C38_ValueMatchesLabel ==
    \A t \in Threads : athr[t] \in {"send", "write"} => mline[t].conv = mline[t].label

\* a line whose value is in bar and whose label says Pa is being written
C38_MixedUnits ==
    ~(\E t \in Threads : athr[t] = "write" /\ mline[t].conv = "bar" /\ mline[t].label = "Pa")

\* C39: a simulator with a non-zero address executes and answers a command
\* line that carries no address prefix, as its dispatch does; only a line
\* prefixed with another address is ignored.
C39_UnprefixedLineExecuted ==
    /\ (hc.n > 0 /\ hc.before.addr # 0 /\ hc.line.pfx = <<>>) =>
            /\ Len(hc.out) = 1
            /\ hc.out = dispatch(hc.before, hc.line).out
            /\ dev = dispatch(hc.before, hc.line).dev
    /\ (hc.n > 0 /\ hc.out = <<>>) =>
            (hc.before.addr # 0 /\ hc.line.pfx # <<>> /\ hc.line.pfx[1] # hc.before.addr)

\* the device with address 5 has set its unit on a bare U,Pa
C39_Witness ==
    /\ hc.n > 0
    /\ hc.before.addr = 5
    /\ hc.before.unit = "bar"
    /\ hc.line.pfx = <<>>
    /\ hc.line.c = "U"
    /\ hc.line.u = "Pa"
    /\ dev.unit = "Pa"
    /\ Len(hc.out) = 1

\* C40: a cycle that ends in the error handler leaves the row counter at
\* the number of data rows in the file: it has appended no row, its counter
\* being what it was when the cycle began.
C40_CountIsRowsAppended ==
    [][(lpc = "log" /\ lpc' = "wait") => (~cyc.kept /\ count' = cyc.k)]_vars

\* a cycle that has appended its row goes back to the wait with an error
\* logged and the counter where it was
C40_RowNotCounted ==
    [][~(lpc = "log" /\ cyc.kept /\ lpc' = "wait" /\ cyc'.err /\ count' = cyc.k)]_vars

====
